---------------------------- MODULE Spec2Model ----------------------------
(***************************************************************************)
(* A model of the worker-thread orchestration of AES Crypt for Windows     *)
(* (worker_threads.cpp): the request dispatcher (ProcessFiles,             *)
(* StartThread, ThreadEntry, IsBusy), the per-file pipeline of             *)
(* EncryptFiles / DecryptFiles, the transfer of EncryptStream /            *)
(* DecryptStream with its transfer thread, and the progress dialog's       *)
(* cancellation flag.                                                      *)
(*                                                                         *)
(* Threads of the model: the host thread that calls ProcessFiles, one      *)
(* session thread per accepted request, and per session a progress-dialog  *)
(* thread and (per file) a transfer thread.  The crypto engine, the        *)
(* password dialog and the file system are the environment.                *)
(***************************************************************************)
EXTENDS Integers, Sequences, FiniteSets, TLC

\* ------------------------------------------------------------------ bounds

\* The work the host submits over one run of the process: two units per
\* ProcessFiles invocation and one per file of its list.
MaxWork == 5

\* Session threads that can exist: each costs a call.
MaxThreads == MaxWork \div 2

\* ------------------------------------------------------------- file names

\* A file name is a sequence of characters.
NameA == <<"a">>
NameB == <<"b">>
NameAaes == <<"a", ".", "a", "e", "s">>
NameBaes == <<"b", ".", "a", "e", "s">>

\* Names the host submits for encryption and for decryption.
EncNames == {NameA, NameB}
DecNames == {NameAaes, NameB}

Separators == {"/", "\\"}

\* std::filesystem::path::filename(): what follows the last separator.
RECURSIVE Filename(_)
Filename(name) ==
    IF \E k \in 1..Len(name) : name[k] \in Separators
    THEN Filename(Tail(name))
    ELSE name

\* The part of a file name before an alternate-data-stream colon.
RECURSIVE BeforeColon(_)
BeforeColon(fname) ==
    IF fname = <<>> \/ Head(fname) = ":"
    THEN <<>>
    ELSE <<Head(fname)>> \o BeforeColon(Tail(fname))

\* std::filesystem::path::extension(): from the last dot of the file name,
\* unless that dot is the file name's first character or the name is "..".
Extension(name) ==
    LET f == BeforeColon(Filename(name))
        n == Len(f)
        dots == {k \in 2..n : f[k] = "."}
    IN  IF n <= 1 THEN <<>>
        ELSE IF f = <<".", ".">> THEN <<>>
        ELSE IF dots = {} THEN <<>>
        ELSE LET d == CHOOSE k \in dots : \A j \in dots : j <= k
             IN  SubSeq(f, d, n)

HasAESExtension(filename) ==
    LET extension == Extension(filename)
    IN  /\ Len(extension) = 4
        /\ extension[1] = "."
        /\ extension[2] \in {"a", "A"}
        /\ extension[3] \in {"e", "E"}
        /\ extension[4] \in {"s", "S"}

\* out_file = in_file + L".aes"
EncryptOutName(in_file) == in_file \o <<".", "a", "e", "s">>

\* out_file = in_file; out_file.resize(out_file.size() - 4)
DecryptOutName(in_file) == SubSeq(in_file, 1, Len(in_file) - 4)

OutName(in_file, encrypt) ==
    IF encrypt THEN EncryptOutName(in_file) ELSE DecryptOutName(in_file)

\* Every path the sessions can touch.
FsPaths ==
    EncNames \cup DecNames
        \cup {EncryptOutName(n) : n \in EncNames}
        \cup {DecryptOutName(n) : n \in {m \in DecNames : HasAESExtension(m)}}


\* What a path can be when the process starts: nothing, a regular file, or
\* another kind of node (a device, a directory).
Kinds == {"absent", "regular", "special"}

\* What each path can be when the process starts: the file a exists or
\* not, b exists, a.aes is absent, a regular file or another node, and
\* b.aes is absent.  At least one of a and a.aes is a regular file.
InitialKinds(path) ==
    IF path = NameA THEN {"regular", "absent"}
    ELSE IF path = NameB THEN {"regular"}
    ELSE IF path = NameAaes THEN Kinds
    ELSE {"absent"}

\* A node of the file system: its kind and who wrote its content last
\* (0: the content it had when the process started).
Node(kind, writer) == [kind |-> kind, writer |-> writer]

\* ---------------------------------------------------------------- threads

\* The thread that calls ProcessFiles and StartThread.
HostThread == 0

\* Identities CreateThread can hand out, one per session thread.
ThreadIds == 1..MaxThreads

\* All file lists of at most n names of S.
SeqsUpTo(S, n) == UNION {[1..k -> S] : k \in 0..n}

NoRequest ==
    [file_list |-> <<>>, encrypt |-> TRUE, thread_id |-> HostThread,
     thread_handle |-> HostThread]

VARIABLES
    \* WorkerThreads members
    thread_count,        \* int thread_count
    requests,            \* std::deque<RequestData> requests
    terminated_threads,  \* std::deque<HANDLE> terminated_threads
    cs,                  \* owner of critical_section: {} when free
    \* the host thread
    hpc,                 \* where the host is in ProcessFiles / StartThread
    hreq,                \* file list and mode of the call in progress
    hthread,             \* thread_id returned by CreateThread
    host_errors,         \* ReportError calls made on the host thread
    work,                \* calls made and files submitted so far
    hstep,               \* the step the host thread took last
    \* the environment
    fs,                  \* path -> node
    fs0,                 \* the file system when the process started
    crashed,             \* std::terminate() was called
    released,            \* handles given to CloseHandle, in order
    waited,              \* what was given to WaitForSingleObject, in order
    \* per session thread
    pc,                  \* position of the session thread
    request,             \* RequestData request (local copy)
    handle,              \* HANDLE handle (local of the drain loop)
    idx,                 \* index of in_file in file_list
    remove_on_fail,      \* bool remove_on_fail
    cancel_pressed,      \* ProgressDialog::cancel_pressed
    pthread,             \* the progress-dialog thread
    tthread,             \* the transfer thread of the current file
    engine_cancel,       \* Encryptor/Decryptor::Cancel() was called
    engine_result,       \* encrypt_result / decrypt_result
    complete,            \* encryption_complete / decryption_complete
    errors,              \* ReportError calls made by the session
    log,                 \* what the session did, in order
    incs,                \* thread_count++ executed for the thread
    decs,                \* thread_count-- executed by the thread
    submitted,           \* the request StartThread built for the thread
    presses,             \* cancel requests the progress dialog received:
                         \* "none", "once" or "again" (more than once)
    \* the naming of output files, taken by itself
    tried,               \* the file name handed to the naming functions
    named,               \* what the naming functions made of it
    \* the transfer of one file (EncryptStream / DecryptStream), in detail
    input_size,          \* const std::size_t input_size
    position,            \* the position the engine reported last
    mutex,               \* owner of std::mutex mutex: "free" when unlocked
    current_meter_position,  \* std::atomic<std::size_t>
    last_meter_position, \* std::size_t last_meter_position
    last_update_time,    \* steady_clock::time_point, in ms
    now,                 \* std::chrono::steady_clock::now(), in ms
    encryption_complete, \* bool encryption_complete / decryption_complete
    was_cancel_pressed,  \* progress_dialog.WasCancelPressed()
    cancel_called,       \* encryptor.Cancel() / decryptor.Cancel() was called
    encrypt_result,      \* encrypt_result / decrypt_result
    controller,          \* position of the thread running EncryptStream
    transfer,            \* position of encrypt_thread / decrypt_thread
    bar,                 \* positions sent with PBM_SETPOS for this file
    signals,             \* cv.notify_all() calls made by progress_updater
    streams_open,        \* ifs and ofs of the caller are open
    surface,             \* position of the progress thread: in its message
                         \* loop ("loop") or in a handler of the dialog
    woken,               \* the controller, blocked in cv.wait, was notified
    hidden,              \* OnClickedCancel has hidden the dialog
    ended                \* WM_ENDSESSION with wParam # 0 was delivered

dispatcher == <<thread_count, requests, terminated_threads, cs>>
host == <<hpc, hreq, hthread, host_errors, work, hstep>>
env == <<fs, fs0, crashed, released>>
session == <<pc, request, handle, idx, remove_on_fail, cancel_pressed,
             pthread, tthread, engine_cancel, engine_result, complete,
             errors, log>>
pipeline == <<idx, remove_on_fail, cancel_pressed, pthread, tthread,
              engine_cancel, engine_result, complete>>
counts == <<incs, decs, submitted, presses>>
naming == <<tried, named>>
meter == <<input_size, position, mutex, current_meter_position,
           last_meter_position, last_update_time, now, encryption_complete,
           was_cancel_pressed, cancel_called, encrypt_result, controller,
           transfer, bar, signals, streams_open, surface, woken, hidden,
           ended>>
program == <<dispatcher, host, env, session, counts, waited>>
vars == <<program, naming, meter>>

\* No name is being worked on.
NotNamed == [step |-> "none", input |-> <<>>, file |-> <<>>, encrypted |-> FALSE]

\* A step of the host with the thread it concerns (HostThread: none).
HostDid(ev, t) == <<ev, t>>

\* The dispatcher, the host, the environment and the sessions after the
\* construction of WorkerThreads.
ProgramInit ==
    /\ thread_count = 0
    /\ requests = <<>>
    /\ terminated_threads = <<>>
    /\ cs = {}
    /\ hpc = "idle"
    /\ hreq = NoRequest
    /\ hthread = HostThread
    /\ host_errors = 0
    /\ work = 0
    /\ hstep = HostDid("none", HostThread)
    /\ fs0 \in {f \in [FsPaths -> {Node(k, 0) : k \in Kinds}] :
                    /\ \A p \in FsPaths : f[p].kind \in InitialKinds(p)
                    /\ "regular" \in {f[NameA].kind, f[NameAaes].kind}}
    /\ fs = fs0
    /\ crashed = FALSE
    /\ released = <<>>
    /\ waited = <<>>
    /\ pc = [t \in ThreadIds |-> "none"]
    /\ request = [t \in ThreadIds |-> NoRequest]
    /\ handle = [t \in ThreadIds |-> HostThread]
    /\ idx = [t \in ThreadIds |-> 0]
    /\ remove_on_fail = [t \in ThreadIds |-> FALSE]
    /\ cancel_pressed = [t \in ThreadIds |-> FALSE]
    /\ pthread = [t \in ThreadIds |-> "none"]
    /\ tthread = [t \in ThreadIds |-> "none"]
    /\ engine_cancel = [t \in ThreadIds |-> FALSE]
    /\ engine_result = [t \in ThreadIds |-> "Success"]
    /\ complete = [t \in ThreadIds |-> FALSE]
    /\ errors = [t \in ThreadIds |-> 0]
    /\ log = [t \in ThreadIds |-> <<>>]
    /\ incs = [t \in ThreadIds |-> 0]
    /\ decs = [t \in ThreadIds |-> 0]
    /\ submitted = [t \in ThreadIds |-> NoRequest]
    /\ presses = [t \in ThreadIds |-> "none"]

\* No transfer is looked at in detail.
MeterIdle ==
    /\ input_size = 0
    /\ position = 0
    /\ mutex = "free"
    /\ current_meter_position = 0
    /\ last_meter_position = 0
    /\ last_update_time = 0
    /\ now = 0
    /\ encryption_complete = FALSE
    /\ was_cancel_pressed = FALSE
    /\ cancel_called = FALSE
    /\ encrypt_result = "none"
    /\ controller = "none"
    /\ transfer = "none"
    /\ bar = <<>>
    /\ signals = 0
    /\ streams_open = FALSE
    /\ surface = "none"
    /\ woken = FALSE
    /\ hidden = FALSE
    /\ ended = FALSE

Init ==
    /\ ProgramInit
    /\ tried = <<>>
    /\ named = NotNamed
    /\ MeterIdle

\* --------------------------------------------------------- the dispatcher

\* bool WorkerThreads::IsBusy(): read under the critical section.
IsBusy == thread_count > 0

\* The batches a new ProcessFiles call can carry.
Batches(encrypt) ==
    SeqsUpTo(IF encrypt THEN EncNames ELSE DecNames, MaxWork - work - 2)

\* ProcessFiles: the password dialog is cancelled; nothing else happens.
ProcessFiles_Cancelled ==
    /\ ~crashed /\ hpc = "idle" /\ work + 2 <= MaxWork
    /\ work' = work + 2
    /\ hstep' = HostDid("cancelled", HostThread)
    /\ UNCHANGED <<naming, meter, waited, counts, dispatcher, hpc, hreq, hthread, host_errors, env, session>>

\* Mutant: ProcessFiles does not return after reporting the password that
\* could not be converted and goes on into StartThread.
ProcessFiles_EmptyPassword_GoesOn ==
    /\ ~crashed /\ hpc = "idle" /\ work + 2 <= MaxWork
    /\ cs = {}
    /\ host_errors' = host_errors + 1
    /\ hstep' = HostDid("empty_password", HostThread)
    /\ LET t == CHOOSE u \in ThreadIds :
                    pc[u] = "none" /\ \A v \in 1..(u - 1) : pc[v] # "none"
       IN  /\ hreq' = [file_list |-> <<>>, encrypt |-> TRUE,
                       thread_id |-> t, thread_handle |-> t]
           /\ hthread' = t
           /\ pc' = [pc EXCEPT ![t] = "entry"]
           /\ submitted' = [submitted EXCEPT ![t] = hreq']
    /\ work' = work + 2
    /\ cs' = {HostThread}
    /\ hpc' = "created"
    /\ UNCHANGED <<naming, meter, waited, incs, decs, presses, thread_count, requests,
                   terminated_threads, env, request, handle, pipeline,
                   errors, log>>

\* ProcessFiles: the password converts to an empty UTF-8 string.
ProcessFiles_EmptyPassword ==
    /\ ~crashed /\ hpc = "idle" /\ work + 2 <= MaxWork
    /\ work' = work + 2
    /\ host_errors' = host_errors + 1
    /\ hstep' = HostDid("empty_password", HostThread)
    /\ UNCHANGED <<naming, meter, waited, counts, dispatcher, hpc, hreq, hthread, env, session>>

\* Mutant: StartThread calls CreateThread without owning the critical
\* section, so the new thread can look for its request before it is
\* enqueued.
StartThread_Create_Unlocked ==
    /\ ~crashed /\ hpc = "idle" /\ work + 2 <= MaxWork
    /\ cs = {}
    /\ \E encrypt \in BOOLEAN : \E file_list \in Batches(encrypt) :
         LET t == CHOOSE u \in ThreadIds :
                      pc[u] = "none" /\ \A v \in 1..(u - 1) : pc[v] # "none"
         IN  /\ hreq' = [file_list |-> file_list, encrypt |-> encrypt,
                         thread_id |-> t, thread_handle |-> t]
             /\ hthread' = t
             /\ pc' = [pc EXCEPT ![t] = "entry"]
             /\ work' = work + 2 + Len(file_list)
             /\ submitted' = [submitted EXCEPT ![t] = hreq']
             /\ hstep' = HostDid("create", t)
    /\ cs' = {}
    /\ hpc' = "created"
    /\ UNCHANGED <<naming, meter, waited, incs, decs, presses, thread_count, requests,
                   terminated_threads, host_errors,
                   env, request, handle, pipeline, errors, log>>

\* ProcessFiles accepts a password and calls StartThread, which enters the
\* critical section and calls CreateThread; the new thread starts running.
StartThread_Create ==
    /\ ~crashed /\ hpc = "idle" /\ work + 2 <= MaxWork
    /\ cs = {}
    /\ \E encrypt \in BOOLEAN : \E file_list \in Batches(encrypt) :
         LET t == CHOOSE u \in ThreadIds :
                      pc[u] = "none" /\ \A v \in 1..(u - 1) : pc[v] # "none"
         IN  /\ hreq' = [file_list |-> file_list, encrypt |-> encrypt,
                         thread_id |-> t, thread_handle |-> t]
             /\ hthread' = t
             /\ pc' = [pc EXCEPT ![t] = "entry"]
             /\ work' = work + 2 + Len(file_list)
             /\ submitted' = [submitted EXCEPT ![t] = hreq']
             /\ hstep' = HostDid("create", t)
    /\ cs' = {HostThread}
    /\ hpc' = "created"
    /\ UNCHANGED <<naming, meter, waited, incs, decs, presses, thread_count, requests,
                   terminated_threads, host_errors,
                   env, request, handle, pipeline, errors, log>>

\* Mutant: StartThread counts the thread before it looks at the handle.
StartThread_CreateFailed_Counts ==
    /\ ~crashed /\ hpc = "idle" /\ work + 2 <= MaxWork
    /\ cs = {}
    /\ work' = work + 2
    /\ cs' = {HostThread}
    /\ hpc' = "failed"
    /\ hstep' = HostDid("create_failed", HostThread)
    /\ thread_count' = thread_count + 1
    /\ UNCHANGED <<naming, meter, waited, counts, requests, terminated_threads, hreq, hthread,
                   host_errors, env, session>>

\* StartThread: CreateThread returns NULL.
StartThread_CreateFailed ==
    /\ ~crashed /\ hpc = "idle" /\ work + 2 <= MaxWork
    /\ cs = {}
    /\ work' = work + 2
    /\ cs' = {HostThread}
    /\ hpc' = "failed"
    /\ hstep' = HostDid("create_failed", HostThread)
    /\ UNCHANGED <<naming, meter, waited, counts, thread_count, requests, terminated_threads, hreq, hthread,
                   host_errors, env, session>>

\* StartThread: requests.emplace_back(...); thread_count++; leave.
StartThread_Commit ==
    /\ ~crashed /\ hpc = "created"
    /\ requests' = Append(requests, hreq)
    /\ thread_count' = thread_count + 1
    /\ cs' = {}
    /\ hpc' = "idle"
    /\ hreq' = NoRequest
    /\ hthread' = HostThread
    /\ incs' = [incs EXCEPT ![hthread] = @ + 1]
    /\ hstep' = HostDid("enqueue", hthread)
    /\ UNCHANGED <<naming, meter, waited, decs, submitted, presses, terminated_threads, host_errors,
                   work, env, session>>

\* Mutant: on a failed thread creation StartThread reports the error
\* before it leaves the critical section.
StartThread_FailLeave_ReportsLocked ==
    /\ ~crashed /\ hpc = "failed"
    /\ host_errors' = host_errors + 1
    /\ hpc' = "report"
    /\ hstep' = HostDid("leave", HostThread)
    /\ UNCHANGED <<naming, meter, waited, counts, dispatcher, hreq, hthread,
                   work, env, session>>

\* StartThread, thread creation failed: leave the critical section.
StartThread_FailLeave ==
    /\ ~crashed /\ hpc = "failed"
    /\ cs' = {}
    /\ hpc' = "report"
    /\ hstep' = HostDid("leave", HostThread)
    /\ UNCHANGED <<naming, meter, waited, counts, thread_count, requests, terminated_threads, hreq, hthread,
                   host_errors, work, env, session>>

\* StartThread, thread creation failed: ReportError("Thread creation failed").
StartThread_FailReport ==
    /\ ~crashed /\ hpc = "report"
    /\ host_errors' = host_errors + 1
    /\ hpc' = "idle"
    /\ hstep' = HostDid("report", HostThread)
    /\ UNCHANGED <<naming, meter, waited, counts, dispatcher, hreq, hthread, work, env, session>>

\* What WaitForSingleObject is given in "WaitForSingleObject(&handle,
\* INFINITE)": the address of the local variable handle of the calling
\* thread, not the handle it holds.
AddressOfHandle(self) == [object |-> "local", of |-> self]

\* What a wait on the thread handle h would be given.
ThreadObject(h) == [object |-> "thread", of |-> h]

\* WaitForSingleObject(&handle, INFINITE); CloseHandle(handle) by thread
\* self for the handle h it took from terminated_threads.
WaitAndClose(self, h) ==
    /\ waited' = Append(waited, AddressOfHandle(self))
    /\ released' = Append(released, h)

\* ~WorkerThreads: the loop that polls thread_count under the critical
\* section (sleeping 200 ms between two looks) finds it 0.
Destructor_Wait ==
    /\ ~crashed /\ hpc = "idle"
    /\ cs = {}
    /\ thread_count = 0
    /\ hpc' = "reap"
    /\ hstep' = HostDid("destroy", HostThread)
    /\ UNCHANGED <<naming, meter, waited, counts, dispatcher, hreq, hthread,
                   host_errors, work, env, session>>

\* ~WorkerThreads: handle = terminated_threads.front();
\* WaitForSingleObject(&handle, INFINITE); CloseHandle(handle);
\* terminated_threads.pop_front(), outside the critical section.
Destructor_Reap ==
    /\ ~crashed /\ hpc = "reap"
    /\ terminated_threads # <<>>
    /\ WaitAndClose(HostThread, Head(terminated_threads))
    /\ terminated_threads' = Tail(terminated_threads)
    /\ hstep' = HostDid("reap", Head(terminated_threads))
    /\ UNCHANGED <<naming, meter, counts, thread_count, requests, cs, hpc, hreq,
                   hthread, host_errors, work, fs, fs0, crashed, session>>

\* ~WorkerThreads: DeleteCriticalSection once terminated_threads is empty.
Destructor_Delete ==
    /\ ~crashed /\ hpc = "reap"
    /\ terminated_threads = <<>>
    /\ hpc' = "destroyed"
    /\ hstep' = HostDid("delete", HostThread)
    /\ UNCHANGED <<naming, meter, waited, counts, dispatcher, hreq, hthread,
                   host_errors, work, env, session>>

\* ------------------------------------------------- the session thread

\* The position of thread t's request in the deque (0: none), as
\* std::find_if over requests finds it.
FindRequest(t) ==
    LET hits == {i \in 1..Len(requests) : requests[i].thread_id = t}
    IN  IF hits = {} THEN 0 ELSE CHOOSE i \in hits : \A j \in hits : i <= j

\* requests.erase(it)
Erase(q, i) == SubSeq(q, 1, i - 1) \o SubSeq(q, i + 1, Len(q))

\* Mutant: the session thread puts its own handle into terminated_threads
\* when it starts, before its drain loop.
ThreadEntry_Enter_PushesHandle(t) ==
    /\ ~crashed /\ pc[t] = "entry"
    /\ cs = {}
    /\ cs' = {t}
    /\ terminated_threads' = Append(terminated_threads, t)
    /\ pc' = [pc EXCEPT ![t] = "drain"]
    /\ UNCHANGED <<naming, meter, waited, counts, thread_count, requests, host, env,
                   request, handle, pipeline, errors, log>>

\* ThreadEntry: EnterCriticalSection at the start of the thread.
ThreadEntry_Enter(t) ==
    /\ ~crashed /\ pc[t] = "entry"
    /\ cs = {}
    /\ cs' = {t}
    /\ pc' = [pc EXCEPT ![t] = "drain"]
    /\ UNCHANGED <<naming, meter, waited, counts, thread_count, requests, terminated_threads, host, env,
                   request, handle, pipeline, errors, log>>

\* Mutant: the drain loop reads the front handle and leaves it in the
\* deque.
ThreadEntry_DrainPop_NoPop(t) ==
    /\ ~crashed /\ pc[t] = "drain"
    /\ terminated_threads # <<>>
    /\ handle' = [handle EXCEPT ![t] = Head(terminated_threads)]
    /\ cs' = {}
    /\ pc' = [pc EXCEPT ![t] = "wait"]
    /\ UNCHANGED <<naming, meter, waited, counts, thread_count, requests,
                   terminated_threads, host, env, request, pipeline,
                   errors, log>>

\* ThreadEntry, drain loop: pop the front handle and leave the section.
ThreadEntry_DrainPop(t) ==
    /\ ~crashed /\ pc[t] = "drain"
    /\ terminated_threads # <<>>
    /\ handle' = [handle EXCEPT ![t] = Head(terminated_threads)]
    /\ terminated_threads' = Tail(terminated_threads)
    /\ cs' = {}
    /\ pc' = [pc EXCEPT ![t] = "wait"]
    /\ UNCHANGED <<naming, meter, waited, counts, thread_count, requests, host, env, request, pipeline,
                   errors, log>>

\* ThreadEntry, drain loop: WaitForSingleObject(&handle, INFINITE) and
\* CloseHandle(handle).
ThreadEntry_WaitClose(t) ==
    /\ ~crashed /\ pc[t] = "wait"
    /\ WaitAndClose(t, handle[t])
    /\ pc' = [pc EXCEPT ![t] = "reenter"]
    /\ UNCHANGED <<naming, meter, counts, dispatcher, host, fs, fs0, crashed, request, handle,
                   pipeline, errors, log>>

\* ThreadEntry, drain loop: EnterCriticalSection again.
ThreadEntry_Reenter(t) ==
    /\ ~crashed /\ pc[t] = "reenter"
    /\ cs = {}
    /\ cs' = {t}
    /\ pc' = [pc EXCEPT ![t] = "drain"]
    /\ UNCHANGED <<naming, meter, waited, counts, thread_count, requests, terminated_threads, host, env,
                   request, handle, pipeline, errors, log>>

\* Mutant: the session copies its request and leaves it in the deque.
ThreadEntry_Claim_LeavesRequest(t) ==
    /\ ~crashed /\ pc[t] = "drain"
    /\ terminated_threads = <<>>
    /\ LET it == FindRequest(t)
       IN  IF it # 0
           THEN /\ request' = [request EXCEPT ![t] = requests[it]]
                /\ pc' = [pc EXCEPT ![t] = "claimed"]
                /\ UNCHANGED <<requests, thread_count, errors, log, decs>>
           ELSE /\ errors' = [errors EXCEPT ![t] = @ + 1]
                /\ log' = [log EXCEPT ![t] = @ \o <<<<"rendezvous", 0>>,
                                                    <<"error", 0>>>>]
                /\ thread_count' = thread_count - 1
                /\ decs' = [decs EXCEPT ![t] = @ + 1]
                /\ pc' = [pc EXCEPT ![t] = "exited"]
                /\ UNCHANGED <<requests, request>>
    /\ cs' = {}
    /\ UNCHANGED <<naming, meter, waited, incs, submitted, presses, terminated_threads, host, env,
                   handle, pipeline>>

\* Mutant: the session takes the request at the front of the deque
\* instead of the one that carries its thread identity.
ThreadEntry_Claim_TakesFront(t) ==
    /\ ~crashed /\ pc[t] = "drain"
    /\ terminated_threads = <<>>
    /\ IF requests # <<>>
       THEN /\ request' = [request EXCEPT ![t] = Head(requests)]
            /\ requests' = Tail(requests)
            /\ pc' = [pc EXCEPT ![t] = "claimed"]
            /\ UNCHANGED <<thread_count, errors, log, decs>>
       ELSE /\ errors' = [errors EXCEPT ![t] = @ + 1]
            /\ log' = [log EXCEPT ![t] = @ \o <<<<"rendezvous", 0>>,
                                                <<"error", 0>>>>]
            /\ thread_count' = thread_count - 1
            /\ decs' = [decs EXCEPT ![t] = @ + 1]
            /\ pc' = [pc EXCEPT ![t] = "exited"]
            /\ UNCHANGED <<requests, request>>
    /\ cs' = {}
    /\ UNCHANGED <<naming, meter, waited, incs, submitted, presses, terminated_threads, host, env,
                   handle, pipeline>>

\* ThreadEntry: find the request of this thread, move it to the local
\* variable, erase it and leave the section.  Without a request: leave,
\* report "Thread rendezvous failed", decrement thread_count and return.
ThreadEntry_Claim(t) ==
    /\ ~crashed /\ pc[t] = "drain"
    /\ terminated_threads = <<>>
    /\ LET it == FindRequest(t)
       IN  IF it # 0
           THEN /\ request' = [request EXCEPT ![t] = requests[it]]
                /\ requests' = Erase(requests, it)
                /\ pc' = [pc EXCEPT ![t] = "claimed"]
                /\ UNCHANGED <<thread_count, errors, log, decs>>
           ELSE /\ errors' = [errors EXCEPT ![t] = @ + 1]
                /\ log' = [log EXCEPT ![t] = @ \o <<<<"rendezvous", 0>>,
                                                    <<"error", 0>>>>]
                /\ thread_count' = thread_count - 1
                /\ decs' = [decs EXCEPT ![t] = @ + 1]
                /\ pc' = [pc EXCEPT ![t] = "exited"]
                /\ UNCHANGED <<requests, request>>
    /\ cs' = {}
    /\ UNCHANGED <<naming, meter, waited, incs, submitted, presses, terminated_threads, host, env,
                   handle, pipeline>>

\* Mutant: the handlers of ThreadEntry return after reporting.
ThreadEntry_Catch_Returns(t) ==
    /\ ~crashed /\ pc[t] = "caught"
    /\ errors' = [errors EXCEPT ![t] = @ + 1]
    /\ log' = [log EXCEPT ![t] = Append(@, <<"error", idx[t]>>)]
    /\ pc' = [pc EXCEPT ![t] = "exited"]
    /\ UNCHANGED <<naming, meter, waited, counts, dispatcher, host, env, request, handle, pipeline>>

\* ThreadEntry: an exception of EncryptFiles / DecryptFiles is caught and
\* reported ("Unhandled exception processing file(s)").
ThreadEntry_Catch(t) ==
    /\ ~crashed /\ pc[t] = "caught"
    /\ errors' = [errors EXCEPT ![t] = @ + 1]
    /\ log' = [log EXCEPT ![t] = Append(@, <<"error", idx[t]>>)]
    /\ pc' = [pc EXCEPT ![t] = "finish"]
    /\ UNCHANGED <<naming, meter, waited, counts, dispatcher, host, env, request, handle, pipeline>>

\* Mutant: the end of ThreadEntry pushes the handle without thread_count--.
ThreadEntry_Finish_NoDecrement(t) ==
    /\ ~crashed /\ pc[t] = "finish"
    /\ cs = {}
    /\ terminated_threads' = Append(terminated_threads, request[t].thread_handle)
    /\ pc' = [pc EXCEPT ![t] = "exited"]
    /\ UNCHANGED <<naming, meter, waited, counts, thread_count, requests, cs, host, env, request,
                   handle, pipeline, errors, log>>

\* ThreadEntry: thread_count--; terminated_threads.push_back(handle),
\* in one critical section; then the thread function returns.
ThreadEntry_Finish(t) ==
    /\ ~crashed /\ pc[t] = "finish"
    /\ cs = {}
    /\ thread_count' = thread_count - 1
    /\ terminated_threads' = Append(terminated_threads, request[t].thread_handle)
    /\ decs' = [decs EXCEPT ![t] = @ + 1]
    /\ pc' = [pc EXCEPT ![t] = "exited"]
    /\ UNCHANGED <<naming, meter, waited, incs, submitted, presses, requests, cs, host, env, request,
                   handle, pipeline, errors, log>>

\* ------------------------------------- EncryptFiles / DecryptFiles

InFile(t) == request[t].file_list[idx[t]]
OutFile(t) == OutName(InFile(t), request[t].encrypt)

\* The first index of a non-empty set of indices.
First(S) == CHOOSE i \in S : \A j \in S : i <= j

Logged(t, ev) == [log EXCEPT ![t] = Append(@, <<ev, idx[t]>>)]
Logged2(t, ev1, ev2) ==
    [log EXCEPT ![t] = @ \o <<<<ev1, idx[t]>>, <<ev2, idx[t]>>>>]
Reported(t) == [errors EXCEPT ![t] = @ + 1]

\* Mutant: DecryptFiles looks at the suffix of the first name only.
Files_Begin_ChecksFirstOnly(t) ==
    /\ ~crashed /\ pc[t] = "claimed"
    /\ LET file_list == request[t].file_list
           bad == {i \in {1} \cap (1..Len(file_list)) :
                      ~HasAESExtension(file_list[i])}
       IN  IF file_list = <<>>
           THEN /\ pc' = [pc EXCEPT ![t] = "finish"]
                /\ UNCHANGED <<errors, log, pthread>>
           ELSE IF ~request[t].encrypt /\ bad # {}
           THEN /\ errors' = Reported(t)
                /\ log' = [log EXCEPT ![t] = @ \o
                              <<<<"no_aes", First(bad)>>,
                                <<"error_in", First(bad)>>>>]
                /\ pc' = [pc EXCEPT ![t] = "finish"]
                /\ UNCHANGED pthread
           ELSE /\ pthread' = [pthread EXCEPT ![t] = "starting"]
                /\ pc' = [pc EXCEPT ![t] = "waitready"]
                /\ UNCHANGED <<errors, log>>
    /\ UNCHANGED <<naming, meter, waited, counts, dispatcher, host, env, request, handle, idx,
                   remove_on_fail, cancel_pressed, tthread, engine_cancel,
                   engine_result, complete>>

\* Entry of EncryptFiles / DecryptFiles up to the creation of the progress
\* thread: an empty list returns; DecryptFiles reports the first name
\* without .aes and returns; otherwise the dialog thread is started.
Files_Begin(t) ==
    /\ ~crashed /\ pc[t] = "claimed"
    /\ LET file_list == request[t].file_list
           bad == {i \in 1..Len(file_list) : ~HasAESExtension(file_list[i])}
       IN  IF file_list = <<>>
           THEN /\ pc' = [pc EXCEPT ![t] = "finish"]
                /\ UNCHANGED <<errors, log, pthread>>
           ELSE IF ~request[t].encrypt /\ bad # {}
           THEN /\ errors' = Reported(t)
                /\ log' = [log EXCEPT ![t] = @ \o
                              <<<<"no_aes", First(bad)>>,
                                <<"error_in", First(bad)>>>>]
                /\ pc' = [pc EXCEPT ![t] = "finish"]
                /\ UNCHANGED pthread
           ELSE /\ pthread' = [pthread EXCEPT ![t] = "starting"]
                /\ pc' = [pc EXCEPT ![t] = "waitready"]
                /\ UNCHANGED <<errors, log>>
    /\ UNCHANGED <<naming, meter, waited, counts, dispatcher, host, env, request, handle, idx,
                   remove_on_fail, cancel_pressed, tthread, engine_cancel,
                   engine_result, complete>>

\* An exception before the progress thread exists (the SecureVector
\* buffers, the std::thread constructor): it leaves EncryptFiles /
\* DecryptFiles and reaches the handlers of ThreadEntry.
Files_BeginThrows(t) ==
    /\ ~crashed /\ pc[t] = "claimed"
    /\ log' = Logged(t, "throw")
    /\ pc' = [pc EXCEPT ![t] = "caught"]
    /\ UNCHANGED <<naming, meter, waited, counts, dispatcher, host, env, request, handle, pipeline, errors>>

\* The progress thread: Create, ShowWindow, SetEvent, then the message loop.
Progress_Ready(t) ==
    /\ ~crashed /\ pthread[t] = "starting"
    /\ pthread' = [pthread EXCEPT ![t] = "loop"]
    /\ UNCHANGED <<naming, meter, waited, counts, dispatcher, host, env, pc, request, handle, idx,
                   remove_on_fail, cancel_pressed, tthread, engine_cancel,
                   engine_result, complete, errors, log>>

\* The progress thread: Create or ShowWindow throws.  The handlers of the
\* thread function report "Unexpected error in progress dialog thread" on
\* that thread and the thread ends; SetEvent(event_handle) is not reached.
Progress_Fails(t) ==
    /\ ~crashed /\ pthread[t] = "starting"
    /\ pthread' = [pthread EXCEPT ![t] = "failed"]
    /\ UNCHANGED <<naming, meter, waited, counts, dispatcher, host, env, pc, request, handle, idx,
                   remove_on_fail, cancel_pressed, tthread, engine_cancel,
                   engine_result, complete, errors, log>>

\* Mutant: the session does not wait for the ready event.
Files_Ready_NoWait(t) ==
    /\ ~crashed /\ pc[t] = "waitready"
    /\ idx' = [idx EXCEPT ![t] = 1]
    /\ pc' = [pc EXCEPT ![t] = "file"]
    /\ UNCHANGED <<naming, meter, waited, counts, dispatcher, host, env, request, handle, remove_on_fail,
                   cancel_pressed, pthread, tthread, engine_cancel,
                   engine_result, complete, errors, log>>

\* WaitForSingleObject(event_handle): the dialog is ready; the loop starts.
Files_Ready(t) ==
    /\ ~crashed /\ pc[t] = "waitready"
    /\ pthread[t] = "loop"
    /\ idx' = [idx EXCEPT ![t] = 1]
    /\ pc' = [pc EXCEPT ![t] = "file"]
    /\ UNCHANGED <<naming, meter, waited, counts, dispatcher, host, env, request, handle, remove_on_fail,
                   cancel_pressed, pthread, tthread, engine_cancel,
                   engine_result, complete, errors, log>>

\* Mutant: a cancel request that arrives when the flag is set clears it.
Progress_Cancel_Toggles(t) ==
    /\ ~crashed /\ pthread[t] = "loop"
    /\ presses' = [presses EXCEPT ![t] = IF @ = "none" THEN "once" ELSE "again"]
    /\ cancel_pressed' = [cancel_pressed EXCEPT ![t] = ~@]
    /\ UNCHANGED <<naming, meter, waited, incs, decs, submitted, dispatcher, host, env, pc, request,
                   handle, idx,
                   remove_on_fail, pthread, tthread, engine_cancel,
                   engine_result, complete, errors, log>>

\* Mutant: the cancel flag is one for all progress dialogs that are open.
Progress_Cancel_Shared(t) ==
    /\ ~crashed /\ pthread[t] = "loop"
    /\ presses' = [presses EXCEPT ![t] = IF @ = "none" THEN "once" ELSE "again"]
    /\ cancel_pressed' = [u \in ThreadIds |->
                             IF pthread[u] = "loop" THEN TRUE
                             ELSE cancel_pressed[u]]
    /\ UNCHANGED <<naming, meter, waited, incs, decs, submitted, dispatcher, host, env, pc, request,
                   handle, idx,
                   remove_on_fail, pthread, tthread, engine_cancel,
                   engine_result, complete, errors, log>>

\* OnClickedCancel / OnEndSession on the progress thread, each time the
\* message arrives (the button, closing the dialog, the end of the Windows
\* session): cancel_pressed.store(true) and notify_cancel().
Progress_Cancel(t) ==
    /\ ~crashed /\ pthread[t] = "loop"
    /\ presses' = [presses EXCEPT ![t] = IF @ = "none" THEN "once" ELSE "again"]
    /\ cancel_pressed' = [cancel_pressed EXCEPT ![t] = TRUE]
    /\ UNCHANGED <<naming, meter, waited, incs, decs, submitted, dispatcher, host, env, pc, request,
                   handle, idx,
                   remove_on_fail, pthread, tthread, engine_cancel,
                   engine_result, complete, errors, log>>

\* Mutant: an input that cannot be opened is reported and skipped; the
\* loop goes on with the next file.
Files_OpenInput_SkipsFailed(t) ==
    /\ ~crashed /\ pc[t] = "file"
    /\ remove_on_fail' = [remove_on_fail EXCEPT ![t] = FALSE]
    /\ IF fs[InFile(t)].kind = "regular"
       THEN /\ log' = [log EXCEPT ![t] = @ \o <<<<"begin", idx[t]>>,
                                                <<"open_in", idx[t]>>>>]
            /\ pc' = [pc EXCEPT ![t] = "status"]
            /\ UNCHANGED <<errors, idx>>
       ELSE /\ log' = [log EXCEPT ![t] = @ \o <<<<"begin", idx[t]>>,
                                                <<"open_in_failed", idx[t]>>,
                                                <<"error_in", idx[t]>>>>]
            /\ errors' = Reported(t)
            /\ IF idx[t] = Len(request[t].file_list)
               THEN /\ pc' = [pc EXCEPT ![t] = "quit"]
                    /\ UNCHANGED idx
               ELSE /\ pc' = pc
                    /\ idx' = [idx EXCEPT ![t] = @ + 1]
    /\ UNCHANGED <<naming, meter, waited, counts, dispatcher, host, env, request, handle,
                   cancel_pressed, pthread, tthread, engine_cancel,
                   engine_result, complete>>

\* Top of the loop body: reset the display, stat the input, open it.
\* A name that is no regular file cannot be opened: report and break.
Files_OpenInput(t) ==
    /\ ~crashed /\ pc[t] = "file"
    /\ remove_on_fail' = [remove_on_fail EXCEPT ![t] = FALSE]
    /\ IF fs[InFile(t)].kind = "regular"
       THEN /\ log' = [log EXCEPT ![t] = @ \o <<<<"begin", idx[t]>>,
                                                <<"open_in", idx[t]>>>>]
            /\ pc' = [pc EXCEPT ![t] = "status"]
            /\ UNCHANGED errors
       ELSE /\ log' = [log EXCEPT ![t] = @ \o <<<<"begin", idx[t]>>,
                                                <<"open_in_failed", idx[t]>>,
                                                <<"error_in", idx[t]>>>>]
            /\ errors' = Reported(t)
            /\ pc' = [pc EXCEPT ![t] = "quit"]
    /\ UNCHANGED <<naming, meter, waited, counts, dispatcher, host, env, request, handle, idx,
                   cancel_pressed, pthread, tthread, engine_cancel,
                   engine_result, complete>>

\* Mutant: a regular file at the output path is treated like any other
\* node that is there.
Files_Status_Overwrites(t) ==
    /\ ~crashed /\ pc[t] = "status"
    /\ \E threw \in BOOLEAN :
         LET kind == fs[OutFile(t)].kind
         IN  IF threw
             THEN /\ log' = Logged2(t, "status_threw", "error_in")
                  /\ errors' = Reported(t)
                  /\ pc' = [pc EXCEPT ![t] = "quit"]
                  /\ UNCHANGED remove_on_fail
             ELSE /\ remove_on_fail' =
                        [remove_on_fail EXCEPT ![t] = (kind = "absent")]
                  /\ log' = Logged(t, IF kind = "absent" THEN "absent"
                                      ELSE IF kind = "regular" THEN "exists"
                                      ELSE "special")
                  /\ pc' = [pc EXCEPT ![t] = "open_out"]
                  /\ UNCHANGED errors
    /\ UNCHANGED <<naming, meter, waited, counts, dispatcher, host, env, request, handle, idx,
                   cancel_pressed, pthread, tthread, engine_cancel,
                   engine_result, complete>>

\* std::filesystem::status(out_file): it throws (report, break); nothing
\* is there (remove_on_fail); a regular file is there (report, break);
\* something else is there.
Files_Status(t) ==
    /\ ~crashed /\ pc[t] = "status"
    /\ \E threw \in BOOLEAN :
         LET kind == fs[OutFile(t)].kind
         IN  IF threw
             THEN /\ log' = Logged2(t, "status_threw", "error_in")
                  /\ errors' = Reported(t)
                  /\ pc' = [pc EXCEPT ![t] = "quit"]
                  /\ UNCHANGED remove_on_fail
             ELSE IF kind = "regular"
             THEN /\ log' = Logged2(t, "exists", "error_out")
                  /\ errors' = Reported(t)
                  /\ pc' = [pc EXCEPT ![t] = "quit"]
                  /\ UNCHANGED remove_on_fail
             ELSE /\ remove_on_fail' =
                        [remove_on_fail EXCEPT ![t] = (kind = "absent")]
                  /\ log' = Logged(t, IF kind = "absent" THEN "absent"
                                                        ELSE "special")
                  /\ pc' = [pc EXCEPT ![t] = "open_out"]
                  /\ UNCHANGED errors
    /\ UNCHANGED <<naming, meter, waited, counts, dispatcher, host, env, request, handle, idx,
                   cancel_pressed, pthread, tthread, engine_cancel,
                   engine_result, complete>>

\* ofs.open(out_file, out | binary): creates the file, or truncates the
\* regular file that is there; a failure is reported and breaks.
Files_OpenOutput(t) ==
    /\ ~crashed /\ pc[t] = "open_out"
    /\ \E opened \in BOOLEAN :
         IF opened
         THEN /\ fs' = [fs EXCEPT ![OutFile(t)] =
                           IF @.kind = "special" THEN @
                           ELSE Node("regular", t)]
              /\ log' = Logged(t, "open_out")
              /\ pc' = [pc EXCEPT ![t] = "spawn"]
              /\ UNCHANGED errors
         ELSE /\ log' = Logged2(t, "open_out_failed", "error_out")
              /\ errors' = Reported(t)
              /\ pc' = [pc EXCEPT ![t] = "quit"]
              /\ UNCHANGED fs
    /\ UNCHANGED <<naming, meter, waited, counts, dispatcher, host, fs0, crashed, released, request, handle,
                   pipeline>>

\* ------------------------------------ EncryptStream / DecryptStream

\* The transfer thread is started on the open streams.
Stream_Spawn(t) ==
    /\ ~crashed /\ pc[t] = "spawn"
    /\ tthread' = [tthread EXCEPT ![t] = "running"]
    /\ complete' = [complete EXCEPT ![t] = FALSE]
    /\ engine_cancel' = [engine_cancel EXCEPT ![t] = FALSE]
    /\ engine_result' = [engine_result EXCEPT ![t] = "Success"]
    /\ log' = Logged(t, "transfer")
    /\ pc' = [pc EXCEPT ![t] = "ctl"]
    /\ UNCHANGED <<naming, meter, waited, counts, dispatcher, host, env, request, handle, idx,
                   remove_on_fail, cancel_pressed, pthread, errors>>

\* The std::thread constructor of the transfer thread throws.  The
\* exception unwinds EncryptFiles / DecryptFiles, whose progress_thread is
\* still joinable: its destructor calls std::terminate().
Stream_SpawnThrows(t) ==
    /\ ~crashed /\ pc[t] = "spawn"
    /\ log' = Logged(t, "throw")
    /\ crashed' = TRUE
    /\ UNCHANGED <<naming, meter, waited, counts, dispatcher, host, fs, fs0, released, pc, request, handle,
                   pipeline, errors>>

\* Results the engine call can return: Cancelled only after Cancel().
EngineResults(t) ==
    {"Success", "Error"} \cup (IF engine_cancel[t] THEN {"Cancelled"} ELSE {})

\* The transfer thread: the engine call returns, the result is assigned,
\* the completion flag is set under the mutex and the thread ends.
Transfer_Finish(t) ==
    /\ ~crashed /\ tthread[t] = "running"
    /\ \E r \in EngineResults(t) :
         engine_result' = [engine_result EXCEPT ![t] = r]
    /\ complete' = [complete EXCEPT ![t] = TRUE]
    /\ tthread' = [tthread EXCEPT ![t] = "exited"]
    /\ UNCHANGED <<naming, meter, waited, counts, dispatcher, host, env, pc, request, handle, idx,
                   remove_on_fail, cancel_pressed, pthread, engine_cancel,
                   errors, log>>

\* Mutant: on a pressed cancel the controller ends the transfer thread
\* itself instead of waiting for it.
Stream_Check_Terminates(t) ==
    /\ ~crashed /\ pc[t] = "ctl"
    /\ IF complete[t]
       THEN /\ pc' = [pc EXCEPT ![t] = "join"]
            /\ UNCHANGED <<engine_cancel, log, tthread>>
       ELSE IF cancel_pressed[t]
       THEN /\ engine_cancel' = [engine_cancel EXCEPT ![t] = TRUE]
            /\ tthread' = [tthread EXCEPT ![t] = "exited"]
            /\ log' = Logged(t, "cancel")
            /\ pc' = [pc EXCEPT ![t] = "join"]
       ELSE /\ pc' = [pc EXCEPT ![t] = "wait_cv"]
            /\ UNCHANGED <<engine_cancel, log, tthread>>
    /\ UNCHANGED <<naming, meter, waited, counts, dispatcher, host, env, request, handle, idx,
                   remove_on_fail, cancel_pressed, pthread,
                   engine_result, complete, errors>>

\* The controller at the top of its loop: done when the transfer is
\* complete; on a pressed cancel it calls Cancel() and leaves the loop;
\* otherwise it waits on the condition variable.
Stream_Check(t) ==
    /\ ~crashed /\ pc[t] = "ctl"
    /\ IF complete[t]
       THEN /\ pc' = [pc EXCEPT ![t] = "join"]
            /\ UNCHANGED <<engine_cancel, log>>
       ELSE IF cancel_pressed[t]
       THEN /\ engine_cancel' = [engine_cancel EXCEPT ![t] = TRUE]
            /\ log' = Logged(t, "cancel")
            /\ pc' = [pc EXCEPT ![t] = "join"]
       ELSE /\ pc' = [pc EXCEPT ![t] = "wait_cv"]
            /\ UNCHANGED <<engine_cancel, log>>
    /\ UNCHANGED <<naming, meter, waited, counts, dispatcher, host, env, request, handle, idx,
                   remove_on_fail, cancel_pressed, pthread, tthread,
                   engine_result, complete, errors>>

\* cv.wait returns once its predicate holds.
Stream_Wake(t) ==
    /\ ~crashed /\ pc[t] = "wait_cv"
    /\ complete[t] \/ cancel_pressed[t]
    /\ pc' = [pc EXCEPT ![t] = "ctl"]
    /\ UNCHANGED <<naming, meter, waited, counts, dispatcher, host, env, request, handle, pipeline, errors,
                   log>>

\* Mutant: the controller does not join the transfer thread.
Stream_Join_NoWait(t) ==
    /\ ~crashed /\ pc[t] = "join"
    /\ IF engine_result[t] \notin {"Success", "Cancelled"}
       THEN /\ errors' = Reported(t)
            /\ log' = [log EXCEPT ![t] = @ \o <<<<"joined", idx[t]>>,
                                                <<"engine_error", idx[t]>>,
                                                <<"error", idx[t]>>>>]
       ELSE /\ log' = IF engine_result[t] = "Cancelled"
                      THEN Logged2(t, "joined", "cancelled")
                      ELSE Logged(t, "joined")
            /\ UNCHANGED errors
    /\ pc' = [pc EXCEPT ![t] = "close"]
    /\ UNCHANGED <<naming, meter, waited, counts, dispatcher, host, env, request, handle, idx,
                   remove_on_fail, cancel_pressed, pthread, tthread,
                   engine_cancel, engine_result, complete>>

\* Mutant: a cancelled transfer is reported like any other failure.
Stream_Join_ReportsCancelled(t) ==
    /\ ~crashed /\ pc[t] = "join"
    /\ tthread[t] = "exited"
    /\ tthread' = [tthread EXCEPT ![t] = "none"]
    /\ IF engine_result[t] # "Success"
       THEN /\ errors' = Reported(t)
            /\ log' = [log EXCEPT ![t] = @ \o <<<<"joined", idx[t]>>,
                                                <<"engine_error", idx[t]>>,
                                                <<"error", idx[t]>>>>]
       ELSE /\ log' = Logged(t, "joined")
            /\ UNCHANGED errors
    /\ pc' = [pc EXCEPT ![t] = "close"]
    /\ UNCHANGED <<naming, meter, waited, counts, dispatcher, host, env, request, handle, idx,
                   remove_on_fail, cancel_pressed, pthread, engine_cancel,
                   engine_result, complete>>

\* encrypt_thread.join(), then the result: anything but Success and
\* Cancelled is reported.
Stream_Join(t) ==
    /\ ~crashed /\ pc[t] = "join"
    /\ tthread[t] = "exited"
    /\ tthread' = [tthread EXCEPT ![t] = "none"]
    /\ IF engine_result[t] \notin {"Success", "Cancelled"}
       THEN /\ errors' = Reported(t)
            /\ log' = [log EXCEPT ![t] = @ \o <<<<"joined", idx[t]>>,
                                                <<"engine_error", idx[t]>>,
                                                <<"error", idx[t]>>>>]
       ELSE /\ log' = IF engine_result[t] = "Cancelled"
                      THEN Logged2(t, "joined", "cancelled")
                      ELSE Logged(t, "joined")
            /\ UNCHANGED errors
    /\ pc' = [pc EXCEPT ![t] = "close"]
    /\ UNCHANGED <<naming, meter, waited, counts, dispatcher, host, env, request, handle, idx,
                   remove_on_fail, cancel_pressed, pthread, engine_cancel,
                   engine_result, complete>>

\* Mutant: after a failed transfer the output is removed whether or not
\* remove_on_fail is set.
Files_Close_AlwaysRemoves(t) ==
    /\ ~crashed /\ pc[t] = "close"
    /\ IF engine_result[t] # "Success"
       THEN /\ \E removed \in BOOLEAN :
                 fs' = IF removed
                       THEN [fs EXCEPT ![OutFile(t)] = Node("absent", 0)]
                       ELSE fs
            /\ log' = Logged(t, "remove")
            /\ pc' = [pc EXCEPT ![t] = "quit"]
            /\ UNCHANGED idx
       ELSE /\ UNCHANGED fs
            /\ \E flushed \in BOOLEAN :
                 LET closed == IF flushed THEN <<<<"done", idx[t]>>>>
                               ELSE <<<<"flush_failed", idx[t]>>,
                                      <<"done", idx[t]>>>>
                 IN  IF cancel_pressed[t]
                     THEN /\ log' = [log EXCEPT ![t] =
                                       @ \o closed \o <<<<"stop", idx[t]>>>>]
                          /\ pc' = [pc EXCEPT ![t] = "quit"]
                          /\ UNCHANGED idx
                     ELSE IF idx[t] = Len(request[t].file_list)
                     THEN /\ log' = [log EXCEPT ![t] = @ \o closed]
                          /\ pc' = [pc EXCEPT ![t] = "quit"]
                          /\ UNCHANGED idx
                     ELSE /\ log' = [log EXCEPT ![t] = @ \o closed]
                          /\ pc' = [pc EXCEPT ![t] = "file"]
                          /\ idx' = [idx EXCEPT ![t] = @ + 1]
    /\ UNCHANGED <<naming, meter, waited, counts, dispatcher, host, fs0, crashed, released, request, handle,
                   remove_on_fail, cancel_pressed, pthread, tthread,
                   engine_cancel, engine_result, complete, errors>>

\* Mutant: the loop does not look at the cancel flag after a file that was
\* transferred completely.
Files_Close_IgnoresCancel(t) ==
    /\ ~crashed /\ pc[t] = "close"
    /\ IF engine_result[t] # "Success"
       THEN /\ IF remove_on_fail[t]
               THEN /\ \E removed \in BOOLEAN :
                         fs' = IF removed
                               THEN [fs EXCEPT ![OutFile(t)] = Node("absent", 0)]
                               ELSE fs
                    /\ log' = Logged(t, "remove")
               ELSE /\ UNCHANGED <<fs, log>>
            /\ pc' = [pc EXCEPT ![t] = "quit"]
            /\ UNCHANGED idx
       ELSE /\ UNCHANGED fs
            /\ \E flushed \in BOOLEAN :
                 LET closed == IF flushed THEN <<<<"done", idx[t]>>>>
                               ELSE <<<<"flush_failed", idx[t]>>,
                                      <<"done", idx[t]>>>>
                 IN  IF idx[t] = Len(request[t].file_list)
                     THEN /\ log' = [log EXCEPT ![t] = @ \o closed]
                          /\ pc' = [pc EXCEPT ![t] = "quit"]
                          /\ UNCHANGED idx
                     ELSE /\ log' = [log EXCEPT ![t] = @ \o closed]
                          /\ pc' = [pc EXCEPT ![t] = "file"]
                          /\ idx' = [idx EXCEPT ![t] = @ + 1]
    /\ UNCHANGED <<naming, meter, waited, counts, dispatcher, host, fs0, crashed, released, request, handle,
                   remove_on_fail, cancel_pressed, pthread, tthread,
                   engine_cancel, engine_result, complete, errors>>

\* Back in the loop of EncryptFiles / DecryptFiles: close the input,
\* flush and close the output (the outcome of the flush is not looked at);
\* on a failed transfer try to remove the output if remove_on_fail (a
\* failure of the removal is swallowed) and break; break when cancel was
\* pressed; otherwise go on with the next file.
Files_Close(t) ==
    /\ ~crashed /\ pc[t] = "close"
    /\ IF engine_result[t] # "Success"
       THEN /\ IF remove_on_fail[t]
               THEN /\ \E removed \in BOOLEAN :
                         fs' = IF removed
                               THEN [fs EXCEPT ![OutFile(t)] = Node("absent", 0)]
                               ELSE fs
                    /\ log' = Logged(t, "remove")
               ELSE /\ UNCHANGED <<fs, log>>
            /\ pc' = [pc EXCEPT ![t] = "quit"]
            /\ UNCHANGED idx
       ELSE /\ UNCHANGED fs
            /\ \E flushed \in BOOLEAN :
                 LET closed == IF flushed THEN <<<<"done", idx[t]>>>>
                               ELSE <<<<"flush_failed", idx[t]>>,
                                      <<"done", idx[t]>>>>
                 IN  IF cancel_pressed[t]
                     THEN /\ log' = [log EXCEPT ![t] =
                                       @ \o closed \o <<<<"stop", idx[t]>>>>]
                          /\ pc' = [pc EXCEPT ![t] = "quit"]
                          /\ UNCHANGED idx
                     ELSE IF idx[t] = Len(request[t].file_list)
                     THEN /\ log' = [log EXCEPT ![t] = @ \o closed]
                          /\ pc' = [pc EXCEPT ![t] = "quit"]
                          /\ UNCHANGED idx
                     ELSE /\ log' = [log EXCEPT ![t] = @ \o closed]
                          /\ pc' = [pc EXCEPT ![t] = "file"]
                          /\ idx' = [idx EXCEPT ![t] = @ + 1]
    /\ UNCHANGED <<naming, meter, waited, counts, dispatcher, host, fs0, crashed, released, request, handle,
                   remove_on_fail, cancel_pressed, pthread, tthread,
                   engine_cancel, engine_result, complete, errors>>

\* After the loop: PostThreadMessage(WM_QUIT) to the progress thread.
Files_Quit(t) ==
    /\ ~crashed /\ pc[t] = "quit"
    /\ pthread' = [pthread EXCEPT ![t] = "quitting"]
    /\ pc' = [pc EXCEPT ![t] = "join_progress"]
    /\ UNCHANGED <<naming, meter, waited, counts, dispatcher, host, env, request, handle, idx,
                   remove_on_fail, cancel_pressed, tthread, engine_cancel,
                   engine_result, complete, errors, log>>

\* The progress thread leaves its message loop, destroys the window, ends.
Progress_Exit(t) ==
    /\ ~crashed /\ pthread[t] = "quitting"
    /\ pthread' = [pthread EXCEPT ![t] = "exited"]
    /\ UNCHANGED <<naming, meter, waited, counts, dispatcher, host, env, pc, request, handle, idx,
                   remove_on_fail, cancel_pressed, tthread, engine_cancel,
                   engine_result, complete, errors, log>>

\* progress_thread.join(); EncryptFiles / DecryptFiles returns.
Files_JoinProgress(t) ==
    /\ ~crashed /\ pc[t] = "join_progress"
    /\ pthread[t] = "exited"
    /\ pc' = [pc EXCEPT ![t] = "finish"]
    /\ UNCHANGED <<naming, meter, waited, counts, dispatcher, host, env, request, handle, pipeline, errors,
                   log>>

\* ------------------------------------------------------- specification

HostNext ==
    \/ ProcessFiles_Cancelled
    \/ ProcessFiles_EmptyPassword
    \/ StartThread_Create
    \/ StartThread_CreateFailed
    \/ StartThread_Commit
    \/ StartThread_FailLeave
    \/ StartThread_FailReport
    \/ Destructor_Wait
    \/ Destructor_Reap
    \/ Destructor_Delete

SessionNext(t) ==
    \/ ThreadEntry_Enter(t)
    \/ ThreadEntry_DrainPop(t)
    \/ ThreadEntry_WaitClose(t)
    \/ ThreadEntry_Reenter(t)
    \/ ThreadEntry_Claim(t)
    \/ ThreadEntry_Catch(t)
    \/ ThreadEntry_Finish(t)
    \/ Files_Begin(t)
    \/ Files_BeginThrows(t)
    \/ Files_Ready(t)
    \/ Files_OpenInput(t)
    \/ Files_Status(t)
    \/ Files_OpenOutput(t)
    \/ Files_Close(t)
    \/ Files_Quit(t)
    \/ Files_JoinProgress(t)
    \/ Stream_Spawn(t)
    \/ Stream_SpawnThrows(t)
    \/ Stream_Check(t)
    \/ Stream_Wake(t)
    \/ Stream_Join(t)
    \/ Transfer_Finish(t)
    \/ Progress_Ready(t)
    \/ Progress_Fails(t)
    \/ Progress_Cancel(t)
    \/ Progress_Exit(t)

Next == HostNext \/ \E t \in ThreadIds : SessionNext(t)

Spec == Init /\ [][Next]_vars

\* ------------------------------------------------ the naming of outputs

\* The longest file name handed to the naming functions.
MaxName == 4

\* The characters of those names: letters of the suffix in both cases, the
\* dot, a separator and the colon of an alternate data stream.
NameChars == {"a", "e", "s", "S", ".", "/", ":"}

Names == UNION {[1..k -> NameChars] : k \in 1..MaxName}

\* One name is given to the naming functions; the dispatcher is idle.
NamingInit ==
    /\ ProgramInit
    /\ fs0 = [p \in FsPaths |->
                Node(IF p \in {NameA, NameB} THEN "regular" ELSE "absent", 0)]
    /\ MeterIdle
    /\ tried \in Names
    /\ named = [step |-> "given", input |-> tried, file |-> tried,
                encrypted |-> FALSE]

\* EncryptFiles: std::wstring out_file = in_file + L".aes".
Naming_Encrypt ==
    /\ named.step = "given"
    /\ named' = [step |-> "encrypted", input |-> named.file,
                 file |-> EncryptOutName(named.file), encrypted |-> TRUE]
    /\ UNCHANGED <<program, meter, tried>>

\* DecryptFiles: if (!HasAESExtension(in_file)) { ReportError; return; }
\* for a name as it was given or as EncryptFiles made it.
Naming_Validate ==
    /\ named.step \in {"given", "encrypted"}
    /\ named' = [step |-> IF HasAESExtension(named.file)
                          THEN "accepted" ELSE "rejected",
                 input |-> named.file, file |-> named.file,
                 encrypted |-> named.encrypted]
    /\ UNCHANGED <<program, meter, tried>>

\* DecryptFiles: out_file = in_file; out_file.resize(out_file.size() - 4).
Naming_Decrypt ==
    /\ named.step = "accepted"
    /\ named' = [step |-> "decrypted", input |-> named.file,
                 file |-> DecryptOutName(named.file),
                 encrypted |-> named.encrypted]
    /\ UNCHANGED <<program, meter, tried>>

NamingNext == Naming_Encrypt \/ Naming_Validate \/ Naming_Decrypt

NamingSpec == NamingInit /\ [][NamingNext]_vars

\* --------------------------- EncryptStream / DecryptStream, in detail

\* constexpr std::chrono::milliseconds Progress_Update_Minimum(250)
Progress_Update_Minimum == 250

\* The largest file size (octets) recorded before a transfer.
MaxSize == 3

\* The positions the engine can report: the file can have grown by an
\* octet since std::filesystem::file_size looked at it.
MaxPosition == MaxSize + 1

\* The clock advances in steps of half the minimum interval, this often.
MaxTicks == 4
Tick == Progress_Update_Minimum \div 2

\* The width of std::size_t.  It is 64 on the x64 target; the model
\* scales it down with the file sizes (100 * MaxPosition stays as far
\* below 2^SizeBits as 100 times a real file size stays below 2^64).
SizeBits == 16
SizeModulus == 2 ^ SizeBits

\* 100 * position / input_size in std::size_t arithmetic.
Percentage(pos, size) == ((100 * pos) % SizeModulus) \div size

shared == <<position, current_meter_position, last_update_time, signals>>
control == <<controller, last_meter_position, bar, cancel_called,
             streams_open>>
engine == <<transfer, encrypt_result, encryption_complete>>
surroundings == <<input_size, now, was_cancel_pressed>>
dialog == <<surface, hidden, ended>>

\* cv.notify_all(): a controller blocked in cv.wait is woken; a
\* notification that finds nobody waiting is lost.
NotifyAll == IF controller = "wait" THEN TRUE ELSE woken

\* The predicate of the controller's cv.wait.
WaitPredicate ==
    \/ encryption_complete
    \/ current_meter_position # last_meter_position
    \/ was_cancel_pressed

\* EncryptFiles has reset the progress bar (PBM_SETPOS 0), taken the file
\* size (0 when it is unknown or the file is empty), opened both streams
\* and calls EncryptStream, which reads the clock.  The progress thread
\* serves the message loop of the dialog.
StreamInit ==
    /\ ProgramInit
    /\ fs0 = [p \in FsPaths |->
                Node(IF p \in {NameA, NameB} THEN "regular" ELSE "absent", 0)]
    /\ tried = <<>>
    /\ named = NotNamed
    /\ input_size \in 0..MaxSize
    /\ position = 0
    /\ mutex = "free"
    /\ current_meter_position = 0
    /\ last_meter_position = 0
    /\ last_update_time = 0
    /\ now = 0
    /\ encryption_complete = FALSE
    /\ was_cancel_pressed = FALSE
    /\ cancel_called = FALSE
    /\ encrypt_result = "none"
    /\ controller = "spawn"
    /\ transfer = "none"
    /\ bar = <<0>>
    /\ signals = 0
    /\ streams_open = TRUE
    /\ surface = "loop"
    /\ woken = FALSE
    /\ hidden = FALSE
    /\ ended = FALSE

\* std::thread encrypt_thread(...): the transfer thread starts the engine.
Controller_Spawn ==
    /\ controller = "spawn"
    /\ transfer' = "engine"
    /\ controller' = "lock"
    /\ UNCHANGED <<program, naming, shared, surroundings, dialog, mutex,
                   woken, last_meter_position, bar, cancel_called,
                   streams_open, encrypt_result, encryption_complete>>

\* std::unique_lock lock(mutex) before the loop; lock.lock() at its end.
Controller_Lock ==
    /\ controller = "lock"
    /\ mutex = "free"
    /\ mutex' = "controller"
    /\ controller' = "loop"
    /\ UNCHANGED <<program, naming, shared, surroundings, engine, dialog,
                   woken, last_meter_position, bar, cancel_called,
                   streams_open>>

\* Mutant: the controller calls Cancel() without unlocking the mutex.
Controller_Loop_CancelsLocked ==
    /\ controller = "loop"
    /\ IF encryption_complete
       THEN /\ mutex' = "free"
            /\ controller' = "join"
            /\ UNCHANGED cancel_called
       ELSE IF was_cancel_pressed
       THEN /\ cancel_called' = TRUE
            /\ controller' = "relock"
            /\ UNCHANGED mutex
       ELSE /\ controller' = IF WaitPredicate THEN "woken" ELSE "park"
            /\ UNCHANGED <<mutex, cancel_called>>
    /\ UNCHANGED <<program, naming, shared, surroundings, engine, dialog,
                   woken, last_meter_position, bar, streams_open>>

\* while (!encryption_complete): leave the loop and unlock when the
\* transfer is complete; if (WasCancelPressed()) lock.unlock(); otherwise
\* cv.wait(lock, ...), which first evaluates its predicate with the mutex
\* held: when it holds the wait returns at once, else the thread is about
\* to block.
Controller_Loop ==
    /\ controller = "loop"
    /\ IF encryption_complete
       THEN /\ mutex' = "free"
            /\ controller' = "join"
       ELSE IF was_cancel_pressed
       THEN /\ mutex' = "free"
            /\ controller' = "cancel"
       ELSE /\ controller' = IF WaitPredicate THEN "woken" ELSE "park"
            /\ UNCHANGED mutex
    /\ UNCHANGED <<program, naming, shared, surroundings, engine, dialog,
                   woken, last_meter_position, bar, cancel_called,
                   streams_open>>

\* cv.wait: the mutex is released and the thread blocks, in one step.
Controller_Park ==
    /\ controller = "park"
    /\ mutex' = "free"
    /\ woken' = FALSE
    /\ controller' = "wait"
    /\ UNCHANGED <<program, naming, shared, surroundings, engine, dialog,
                   last_meter_position, bar, cancel_called, streams_open>>

\* encryptor.Cancel()
Controller_Cancel ==
    /\ controller = "cancel"
    /\ cancel_called' = TRUE
    /\ controller' = "relock"
    /\ UNCHANGED <<program, naming, shared, surroundings, engine, dialog,
                   mutex, woken, last_meter_position, bar, streams_open>>

\* lock.lock(); break; and after the loop lock.unlock().
Controller_Break ==
    /\ controller = "relock"
    /\ mutex = "free"
    /\ mutex' = "free"
    /\ controller' = "join"
    /\ UNCHANGED <<program, naming, shared, surroundings, engine, dialog,
                   woken, last_meter_position, bar, cancel_called,
                   streams_open>>

\* cv.wait, notified: the thread takes the mutex again and evaluates the
\* predicate; the wait returns when it holds, else the thread blocks
\* again.
Controller_Wake ==
    /\ controller = "wait"
    /\ woken
    /\ mutex = "free"
    /\ woken' = FALSE
    /\ IF WaitPredicate
       THEN /\ mutex' = "controller"
            /\ controller' = "woken"
       ELSE UNCHANGED <<mutex, controller>>
    /\ UNCHANGED <<program, naming, shared, surroundings, engine, dialog,
                   last_meter_position, bar, cancel_called, streams_open>>

\* Mutant: the controller keeps the mutex while it updates the dialog.
Controller_Unlock_Skipped ==
    /\ controller = "woken"
    /\ controller' = "service"
    /\ UNCHANGED <<program, naming, shared, surroundings, engine, dialog,
                   mutex, woken, last_meter_position, bar, cancel_called,
                   streams_open>>

\* lock.unlock() after the wait.
Controller_Unlock ==
    /\ controller = "woken"
    /\ mutex' = "free"
    /\ controller' = "service"
    /\ UNCHANGED <<program, naming, shared, surroundings, engine, dialog,
                   woken, last_meter_position, bar, cancel_called,
                   streams_open>>

\* Mutant: the controller sends every position it loads.
Controller_Service_SendsAlways ==
    /\ controller = "service"
    /\ surface = "loop"
    /\ bar' = Append(bar, current_meter_position)
    /\ last_meter_position' = current_meter_position
    /\ controller' = "lock"
    /\ UNCHANGED <<program, naming, shared, surroundings, engine, dialog,
                   mutex, woken, cancel_called, streams_open>>

\* new_meter_position = current_meter_position.load(); if it is greater
\* than last_meter_position, SendDlgItemMessage(PBM_SETPOS) and
\* last_meter_position = it.  The message is sent to the window of the
\* progress thread: the call returns when that thread, back in its
\* message loop, has handled it.
Controller_Service ==
    /\ controller = "service"
    /\ IF current_meter_position > last_meter_position
       THEN /\ surface = "loop"
            /\ bar' = Append(bar, current_meter_position)
            /\ last_meter_position' = current_meter_position
       ELSE UNCHANGED <<bar, last_meter_position>>
    /\ controller' = "lock"
    /\ UNCHANGED <<program, naming, shared, surroundings, engine, dialog,
                   mutex, woken, cancel_called, streams_open>>

\* encrypt_thread.join(), then EncryptStream returns.
Controller_Join ==
    /\ controller = "join"
    /\ transfer = "exited"
    /\ controller' = "returned"
    /\ UNCHANGED <<program, naming, shared, surroundings, engine, dialog,
                   mutex, woken, last_meter_position, bar, cancel_called,
                   streams_open>>

\* Back in EncryptFiles: ifs.close(); ofs.flush(); ofs.close().
Files_CloseStreams ==
    /\ controller = "returned"
    /\ streams_open' = FALSE
    /\ controller' = "closed"
    /\ UNCHANGED <<program, naming, shared, surroundings, engine, dialog,
                   mutex, woken, last_meter_position, bar, cancel_called>>

\* Mutant: the updater has no throttle.
Progress_Updater_Unthrottled ==
    /\ transfer = "engine"
    /\ mutex = "free"
    /\ \E pos \in (position + 1)..MaxPosition :
         /\ position' = pos
         /\ IF input_size = 0 \/ pos = input_size
            THEN UNCHANGED <<current_meter_position, last_update_time,
                             signals, woken>>
            ELSE /\ last_update_time' = now
                 /\ current_meter_position' = Percentage(pos, input_size)
                 /\ signals' = signals + 1
                 /\ woken' = NotifyAll
    /\ UNCHANGED <<program, naming, surroundings, engine, control, dialog,
                   mutex>>

\* Mutant: the updater takes an unknown size for a complete file.
Progress_Updater_UnknownIsFull ==
    /\ transfer = "engine"
    /\ mutex = "free"
    /\ \E pos \in (position + 1)..MaxPosition :
         /\ position' = pos
         /\ IF input_size = 0
            THEN /\ current_meter_position' = 100
                 /\ signals' = signals + 1
                 /\ woken' = NotifyAll
                 /\ UNCHANGED last_update_time
            ELSE IF \/ pos = input_size
                    \/ now - last_update_time < Progress_Update_Minimum
            THEN UNCHANGED <<current_meter_position, last_update_time,
                             signals, woken>>
            ELSE /\ last_update_time' = now
                 /\ current_meter_position' = Percentage(pos, input_size)
                 /\ signals' = signals + 1
                 /\ woken' = NotifyAll
    /\ UNCHANGED <<program, naming, surroundings, engine, control, dialog,
                   mutex>>

\* The engine calls progress_updater with a position beyond the last one.
\* The updater runs under the mutex: nothing when the size is unknown,
\* when position == input_size or when less than Progress_Update_Minimum
\* has passed since last_update_time; otherwise it stores the time and
\* the percentage and calls cv.notify_all().
Progress_Updater ==
    /\ transfer = "engine"
    /\ mutex = "free"
    /\ \E pos \in (position + 1)..MaxPosition :
         /\ position' = pos
         /\ IF \/ input_size = 0
               \/ pos = input_size
               \/ now - last_update_time < Progress_Update_Minimum
            THEN UNCHANGED <<current_meter_position, last_update_time,
                             signals, woken>>
            ELSE /\ last_update_time' = now
                 /\ current_meter_position' = Percentage(pos, input_size)
                 /\ signals' = signals + 1
                 /\ woken' = NotifyAll
    /\ UNCHANGED <<program, naming, surroundings, engine, control, dialog,
                   mutex>>

\* The engine call returns: Cancelled only after Cancel().
Engine_Return ==
    /\ transfer = "engine"
    /\ \E r \in {"Success", "Error"}
                  \cup (IF cancel_called THEN {"Cancelled"} ELSE {}) :
         encrypt_result' = r
    /\ transfer' = "done"
    /\ UNCHANGED <<program, naming, shared, surroundings, control, dialog,
                   mutex, woken, encryption_complete>>

\* Mutant: the transfer thread sets the completion flag and notifies
\* without taking the mutex.
Transfer_Complete_Unlocked ==
    /\ transfer = "done"
    /\ encryption_complete' = TRUE
    /\ woken' = NotifyAll
    /\ transfer' = "exited"
    /\ UNCHANGED <<program, naming, shared, surroundings, control, dialog,
                   mutex, encrypt_result>>

\* The transfer thread locks the mutex, sets encryption_complete, calls
\* cv.notify_all(), unlocks and ends.
Transfer_Complete ==
    /\ transfer = "done"
    /\ mutex = "free"
    /\ encryption_complete' = TRUE
    /\ woken' = NotifyAll
    /\ transfer' = "exited"
    /\ UNCHANGED <<program, naming, shared, surroundings, control, dialog,
                   mutex, encrypt_result>>

\* Time passes while the engine works.
Clock_Tick ==
    /\ transfer = "engine"
    /\ now < MaxTicks * Tick
    /\ now' = now + Tick
    /\ UNCHANGED <<program, naming, shared, control, engine, dialog, mutex,
                   woken, input_size, was_cancel_pressed>>

\* ProgressDialog::OnClickedCancel, dispatched by the message loop of the
\* progress thread (the button of the visible dialog):
\* cancel_pressed.store(true); the handler goes on to notify_cancel().
Dialog_Cancel ==
    /\ controller # "closed"
    /\ surface = "loop"
    /\ ~hidden
    /\ was_cancel_pressed' = TRUE
    /\ surface' = "clicked"
    /\ UNCHANGED <<program, naming, shared, control, engine, mutex, woken,
                   hidden, ended, input_size, now>>

\* Mutant: OnEndSession sets the flag and does not call notify_cancel().
Dialog_EndSession_Silent ==
    /\ controller # "closed"
    /\ surface = "loop"
    /\ ~ended
    /\ \E wParam \in BOOLEAN :
         IF wParam
         THEN /\ was_cancel_pressed' = TRUE
              /\ ended' = TRUE
              /\ UNCHANGED surface
         ELSE UNCHANGED <<was_cancel_pressed, surface, ended>>
    /\ UNCHANGED <<program, naming, shared, control, engine, mutex, woken,
                   hidden, input_size, now>>

\* ProgressDialog::OnEndSession, dispatched by the message loop of the
\* progress thread: with wParam # 0 (the Windows session ends)
\* cancel_pressed.store(true) and the handler goes on to notify_cancel();
\* with wParam = 0 nothing.
Dialog_EndSession ==
    /\ controller # "closed"
    /\ surface = "loop"
    /\ ~ended
    /\ \E wParam \in BOOLEAN :
         IF wParam
         THEN /\ was_cancel_pressed' = TRUE
              /\ surface' = "endsession"
              /\ ended' = TRUE
         ELSE UNCHANGED <<was_cancel_pressed, surface, ended>>
    /\ UNCHANGED <<program, naming, shared, control, engine, mutex, woken,
                   hidden, input_size, now>>

\* Mutant: the cancel callback notifies without taking the mutex.
Dialog_Notify_Unlocked ==
    /\ surface \in {"clicked", "endsession"}
    /\ woken' = NotifyAll
    /\ hidden' = (hidden \/ surface = "clicked")
    /\ surface' = "loop"
    /\ UNCHANGED <<program, naming, shared, control, engine, surroundings,
                   mutex, ended>>

\* notify_cancel(), the callback EncryptFiles gave the dialog:
\* std::lock_guard lock(mutex); cv.notify_all().  Then OnClickedCancel
\* hides the window (hide_on_cancel), and the handler returns to the
\* message loop.
Dialog_Notify ==
    /\ surface \in {"clicked", "endsession"}
    /\ mutex = "free"
    /\ woken' = NotifyAll
    /\ hidden' = (hidden \/ surface = "clicked")
    /\ surface' = "loop"
    /\ UNCHANGED <<program, naming, shared, control, engine, surroundings,
                   mutex, ended>>

\* The steps of the controller (the session thread in EncryptStream).
ControllerNext ==
    \/ Controller_Spawn
    \/ Controller_Lock
    \/ Controller_Loop
    \/ Controller_Park
    \/ Controller_Cancel
    \/ Controller_Break
    \/ Controller_Wake
    \/ Controller_Unlock
    \/ Controller_Service
    \/ Controller_Join
    \/ Files_CloseStreams

StreamNext ==
    \/ ControllerNext
    \/ Progress_Updater
    \/ Engine_Return
    \/ Transfer_Complete
    \/ Clock_Tick
    \/ Dialog_Cancel
    \/ Dialog_EndSession
    \/ Dialog_Notify

StreamSpec == StreamInit /\ [][StreamNext]_vars

\* ------------------------------------------------- reading the log

HasEv(t, ev, i) == \E k \in 1..Len(log[t]) : log[t][k] = <<ev, i>>
HasAny(t, ev) == \E k \in 1..Len(log[t]) : log[t][k][1] = ev
Count(t, ev) == Cardinality({k \in 1..Len(log[t]) : log[t][k][1] = ev})

\* Session threads that exist and have not executed their final decrement.
Running == {t \in ThreadIds : pc[t] \notin {"none", "exited"}}

\* Session threads whose handle has not been given to CloseHandle.
Unreaped ==
    {t \in ThreadIds :
        pc[t] # "none" /\ \A k \in 1..Len(released) : released[k] # t}

\* Steps of a file's pipeline that touch the file or start its transfer.
PipelineEvents == {"begin", "open_in", "absent", "special", "open_out",
                   "transfer"}

\* What makes a file, and with it the batch, fail.
FailureEvents == {"open_in_failed", "exists", "status_threw",
                  "open_out_failed", "engine_error"}

\* ------------------------------------------------------------------ C1

\* C1 as stated: whenever IsBusy can read the counter (the critical
\* section is free), the counter is the number of session threads created
\* and not yet reaped, and IsBusy is true exactly when there is one.
C1_BusyUntilReaped ==
    cs = {} =>
        /\ thread_count = Cardinality(Unreaped)
        /\ IsBusy <=> Unreaped # {}

\* C1 amended: whenever IsBusy can read the counter, the counter is the
\* number of session threads created that have not yet finished their
\* session (executed the decrement at the end of ThreadEntry), and IsBusy
\* is true exactly when there is one; a finished thread whose handle still
\* waits in terminated_threads does not count.
C1_BusyWhileSessionRuns ==
    cs = {} =>
        /\ thread_count = Cardinality(Running)
        /\ IsBusy <=> Running # {}

\* One session has finished and its handle waits unreaped while another
\* session still runs: the counter is 1.
C1_Witness ==
    /\ cs = {}
    /\ \E t \in ThreadIds : \E u \in ThreadIds :
         /\ pc[t] = "exited" /\ t \in Unreaped
         /\ pc[u] = "ctl"
    /\ thread_count = 1

\* ------------------------------------------------------------------ C7

\* The session thread t exists and StartThread has passed thread_count++
\* for it.
Counted(t) == pc[t] # "none" /\ ~(hpc = "created" /\ hthread = t)

RECURSIVE Sum(_, _)
Sum(f, S) ==
    IF S = {} THEN 0
    ELSE LET x == CHOOSE y \in S : TRUE IN f[x] + Sum(f, S \ {x})

\* C7: the counter is never negative; it is the increments minus the
\* decrements; each created session thread is counted up exactly once, in
\* the critical section that enqueues its request, and counted down
\* exactly once, by itself, when its session has ended, however it ended;
\* IsBusy is true exactly when the counter is positive.
C7_CounterNonNegativeOncePerThread ==
    /\ thread_count >= 0
    /\ thread_count = Sum(incs, ThreadIds) - Sum(decs, ThreadIds)
    /\ \A t \in ThreadIds :
         /\ incs[t] = (IF Counted(t) THEN 1 ELSE 0)
         /\ decs[t] = (IF pc[t] = "exited" THEN 1 ELSE 0)
         /\ hpc = "created" /\ hthread = t =>
                cs = {HostThread} /\ FindRequest(t) = 0
         /\ Counted(t) /\ pc[t] \in {"entry", "drain", "wait", "reenter"} =>
                FindRequest(t) # 0
    /\ IsBusy <=> thread_count > 0

\* One session has ended by a caught exception and another by a cancelled
\* transfer; each has counted down once and the counter is back at zero.
C7_Witness ==
    /\ thread_count = 0
    /\ \E t \in ThreadIds : \E u \in ThreadIds :
         /\ pc[t] = "exited" /\ HasAny(t, "throw") /\ decs[t] = 1
         /\ pc[u] = "exited" /\ HasAny(u, "cancelled") /\ decs[u] = 1

\* ------------------------------------------------------------------ C2

\* The file list of the session thread t (empty before it has claimed its
\* request).
FileList(t) == request[t].file_list

\* C2: in every session the pipelines start in submission order, the i-th
\* one started is the one of file i, and the one of file i+1 starts only
\* after the transfer thread of file i was joined and file i was closed;
\* the indices of the steps never go back; and while the session opens
\* files or is about to start a transfer no transfer thread exists, so at
\* most one file is in work.
C2_InOrderOneAtATime ==
    \A t \in ThreadIds :
        /\ \A k \in 1..Len(log[t]) :
             /\ log[t][k][1] = "begin" =>
                  LET i == log[t][k][2]
                  IN  /\ i = Cardinality({j \in 1..k : log[t][j][1] = "begin"})
                      /\ i > 1 =>
                           \E d \in 1..(k - 1) : \E j \in 1..(d - 1) :
                               /\ log[t][d] = <<"done", i - 1>>
                               /\ log[t][j] = <<"joined", i - 1>>
             /\ k > 1 => log[t][k - 1][2] <= log[t][k][2]
        /\ pc[t] \in {"file", "status", "open_out", "spawn"} =>
               tthread[t] = "none"
        /\ tthread[t] # "none" => pc[t] \in {"ctl", "wait_cv", "join"}

\* The transfer of the second file of a batch runs, after the first file
\* was completed.
C2_Witness ==
    \E t \in ThreadIds :
        /\ HasEv(t, "done", 1) /\ HasEv(t, "begin", 2)
        /\ idx[t] = 2 /\ tthread[t] = "running"

\* ------------------------------------------------------------------ C3

\* C3: a regular file that was there when the process started is never
\* changed; and a file whose output path is found to be a regular file
\* ends the batch there: for that file no output is opened (so nothing is
\* truncated or written), no transfer is started and nothing is removed,
\* and the session's one error report is the one built from the output
\* name.
C3_ExistingDestinationUntouched ==
    /\ \A p \in FsPaths : fs0[p].kind = "regular" => fs[p] = fs0[p]
    /\ \A t \in ThreadIds : \A i \in 1..Len(FileList(t)) :
         HasEv(t, "exists", i) =>
            /\ ~HasEv(t, "open_out", i) /\ ~HasEv(t, "open_out_failed", i)
            /\ ~HasEv(t, "transfer", i) /\ ~HasEv(t, "remove", i)
            /\ log[t][Len(log[t]) - 1] = <<"exists", i>>
            /\ log[t][Len(log[t])] = <<"error_out", i>>
            /\ errors[t] = 1
            /\ pc[t] \in {"quit", "join_progress", "finish", "exited"}

\* A batch whose first file was completed has ended at its second file,
\* whose output path held a regular file from the start.
C3_Witness ==
    \E t \in ThreadIds :
        /\ HasEv(t, "done", 1) /\ HasEv(t, "exists", 2)
        /\ fs0[OutName(FileList(t)[2], request[t].encrypt)].kind = "regular"
        /\ pc[t] = "exited"

\* ------------------------------------------------------------------ C4

\* The transfer of file i of session t has ended without success.
Aborted(t, i) == HasEv(t, "engine_error", i) \/ HasEv(t, "cancelled", i)

\* C4: a session tries at most one removal; it tries to remove the output
\* of file i only if the transfer of file i was aborted or cancelled, the
\* output path was found absent and the session itself created the file;
\* once the loop is past an aborted or cancelled file whose output path
\* was absent, the removal has been tried; an output path found as a
\* non-regular node is never removed, and such a node is never changed.
C4_RemovalOnlyOfCreatedOutput ==
    /\ \A t \in ThreadIds :
         /\ Count(t, "remove") <= 1
         /\ \A i \in 1..Len(FileList(t)) :
              /\ HasEv(t, "remove", i) =>
                     /\ HasEv(t, "absent", i) /\ HasEv(t, "open_out", i)
                     /\ Aborted(t, i)
              /\ (Aborted(t, i) /\ HasEv(t, "absent", i) /\ pc[t] # "close") =>
                     HasEv(t, "remove", i)
              /\ HasEv(t, "special", i) => ~HasEv(t, "remove", i)
    /\ \A p \in FsPaths : fs0[p].kind = "special" => fs[p] = fs0[p]

\* The transfer of the second file of a batch has failed and the session
\* has removed the output it had created for it, and only that one.
C4_Witness ==
    \E t \in ThreadIds :
        /\ HasEv(t, "done", 1)
        /\ HasEv(t, "absent", 2) /\ HasEv(t, "engine_error", 2)
        /\ HasEv(t, "remove", 2)
        /\ fs[OutName(FileList(t)[1], request[t].encrypt)].kind = "regular"
        /\ fs[OutName(FileList(t)[2], request[t].encrypt)].kind = "absent"
        /\ pc[t] = "exited"

\* ------------------------------------------------------------------ C5

\* No step of session t concerns a file after file k.
NothingAfter(t, k) == \A j \in 1..Len(log[t]) : log[t][j][2] <= k

\* C5: when the transfer of file k ends as cancelled, the controller had
\* seen the cancel flag and called Cancel(); every file before k was
\* completed and the session has tried no removal of their outputs,
\* which are still there unless another session removed them; once the
\* loop is past file k, the removal of its output has been tried exactly
\* if the path was absent before; nothing after file k is attempted and
\* no error is reported.  When the cancel flag is seen only after file k
\* was transferred completely, the batch stops there: nothing after file
\* k is attempted, nothing is removed and no error is reported.
C5_CancelStopsBatchQuietly ==
    \A t \in ThreadIds : \A k \in 1..Len(FileList(t)) :
        /\ HasEv(t, "cancelled", k) =>
              /\ HasEv(t, "cancel", k) /\ cancel_pressed[t]
              /\ NothingAfter(t, k)
              /\ \A i \in 1..(k - 1) :
                    /\ HasEv(t, "done", i) /\ ~HasEv(t, "remove", i)
                    /\ (\A u \in ThreadIds \ {t} : ~HasAny(u, "remove")) =>
                          fs[OutName(FileList(t)[i], request[t].encrypt)].kind
                              # "absent"
              /\ pc[t] # "close" =>
                    (HasEv(t, "remove", k) <=> HasEv(t, "absent", k))
              /\ errors[t] = 0
        /\ (HasEv(t, "stop", k) \/ (HasEv(t, "cancel", k) /\ HasEv(t, "done", k))) =>
              /\ cancel_pressed[t]
              /\ NothingAfter(t, k)
              /\ ~HasAny(t, "remove")
              /\ errors[t] = 0
              /\ pc[t] \in {"quit", "join_progress", "finish", "exited"}

\* A batch of three files was cancelled during its second file: the first
\* output is there, the second was removed, the third was never begun.
C5_Witness ==
    \E t \in ThreadIds :
        /\ Len(FileList(t)) = 3
        /\ HasEv(t, "done", 1) /\ HasEv(t, "cancelled", 2) /\ HasEv(t, "remove", 2)
        /\ fs[OutName(FileList(t)[1], request[t].encrypt)].kind = "regular"
        /\ fs[OutName(FileList(t)[2], request[t].encrypt)].kind = "absent"
        /\ ~HasEv(t, "begin", 3)
        /\ errors[t] = 0 /\ pc[t] = "exited"

\* ------------------------------------------------------------------ C6

\* What a session still does for a file after it has failed.
AfterFailure == {"error", "error_in", "error_out", "remove"}

\* C6: after the first failure of a file in a batch the session begins no
\* file, opens no input or output, checks no output path and starts no
\* transfer, neither for a later file nor again for the failed one: it
\* only reports and, where eligible, removes, and the loop is left.
C6_BatchEndsAtFirstFailure ==
    \A t \in ThreadIds : \A k \in 1..Len(log[t]) :
        log[t][k][1] \in FailureEvents =>
            /\ \A j \in (k + 1)..Len(log[t]) : log[t][j][1] \in AfterFailure
            /\ NothingAfter(t, log[t][k][2])
            /\ pc[t] \in {"close", "quit", "join_progress", "finish", "exited"}

\* A batch of several files has ended at its first file, which could not
\* be opened.
C6_Witness ==
    \E t \in ThreadIds :
        /\ Len(FileList(t)) >= 2
        /\ HasEv(t, "open_in_failed", 1)
        /\ pc[t] = "exited"

\* ------------------------------------------------------------------ C8

\* Session t has claimed a decrypt batch with a name that lacks .aes.
BadDecryptBatch(t) ==
    /\ pc[t] \notin {"none", "entry", "drain", "wait", "reenter"}
    /\ ~request[t].encrypt
    /\ \E i \in 1..Len(FileList(t)) : ~HasAESExtension(FileList(t)[i])

\* C8: a decrypt session whose batch has a name without .aes, wherever in
\* the list, starts no progress thread, begins no file, opens no input,
\* creates or writes no output and starts no transfer; it has reported
\* exactly one error when it ends, the one naming the first such file
\* (or, if the buffers could not be allocated, the caught exception), and
\* it ends with the one decrement that makes the counter forget it.
C8_DecryptFailsFastOnMissingSuffix ==
    \A t \in ThreadIds :
        BadDecryptBatch(t) =>
            /\ pc[t] \in {"claimed", "caught", "finish", "exited"}
            /\ pthread[t] = "none" /\ tthread[t] = "none"
            /\ \A k \in 1..Len(log[t]) :
                  log[t][k][1] \in {"no_aes", "error_in", "throw", "error"}
            /\ \A i \in 1..Len(FileList(t)) :
                  HasEv(t, "no_aes", i) =>
                      /\ ~HasAESExtension(FileList(t)[i])
                      /\ \A j \in 1..(i - 1) : HasAESExtension(FileList(t)[j])
            /\ \A p \in FsPaths : fs[p].writer # t
            /\ pc[t] \in {"finish", "exited"} =>
                  /\ errors[t] = 1
                  /\ HasAny(t, "no_aes") \/ HasAny(t, "throw")
            /\ pc[t] # "exited" => IsBusy
            /\ pc[t] = "exited" => decs[t] = 1

\* A decrypt batch whose second name lacks .aes has ended with one error
\* and the dispatcher is idle again.
C8_Witness ==
    \E t \in ThreadIds :
        /\ ~request[t].encrypt /\ FileList(t) = <<NameAaes, NameB>>
        /\ HasEv(t, "no_aes", 2)
        /\ pc[t] = "exited" /\ errors[t] = 1
        /\ ~IsBusy

\* ------------------------------------------------------------------ C9

\* Session t went down an error path.
ErrorPath(t) ==
    \E k \in 1..Len(log[t]) :
        log[t][k][1] \in FailureEvents \cup
                         {"no_aes", "rendezvous", "throw", "flush_failed"}

\* Session t is over: its thread has returned, or the process was
\* terminated by its exception.
Ended(t) == pc[t] = "exited" \/ (crashed /\ HasAny(t, "throw"))

\* C9: a session that is over has shown exactly one error notification if
\* it went down an error path, and none otherwise.
C9_OneNotificationPerErrorPath ==
    \A t \in ThreadIds :
        Ended(t) => errors[t] = (IF ErrorPath(t) THEN 1 ELSE 0)

\* ------------------------------------------------------------------ C10

\* The handle of session thread t is in the reap queue, held by a
\* draining thread, or released.
HandleQueued(t) ==
    \/ \E k \in 1..Len(terminated_threads) : terminated_threads[k] = t
    \/ \E k \in 1..Len(released) : released[k] = t
    \/ \E u \in ThreadIds : pc[u] = "wait" /\ handle[u] = t

\* C10: an exception that leaves the file processing of a session never
\* ends the process; it is caught in ThreadEntry and reported once, and
\* the session ends as every session does, with its decrement and with
\* its handle in the reap queue.
C10_ExceptionsCaughtAtBoundary ==
    \A t \in ThreadIds :
        HasAny(t, "throw") =>
            /\ ~crashed
            /\ pc[t] \in {"caught", "finish", "exited"}
            /\ pc[t] \in {"finish", "exited"} => errors[t] = 1
            /\ pc[t] = "exited" => decs[t] = 1 /\ HandleQueued(t)

\* ------------------------------------------------------------------ C11

\* The loop of session t is past the transfer of file i and has not gone
\* on to another file: engine_result[t] is the result of that transfer.
ResultOf(t, i) ==
    /\ HasEv(t, "joined", i) /\ idx[t] = i
    /\ pc[t] \in {"close", "quit", "join_progress", "finish", "exited"}

\* C11: what the session does after a transfer follows the engine's
\* result.  A result other than Success and Cancelled is reported, once,
\* and ends the batch at that file; Cancelled ends the batch at that file
\* without a report; after Success the file is completed and, unless it
\* was the last one or cancel was pressed, the loop goes on to the next
\* file.
C11_EngineResultDecidesOutcome ==
    \A t \in ThreadIds : \A i \in 1..Len(FileList(t)) :
        /\ ResultOf(t, i) =>
              /\ engine_result[t] = "Error" <=> HasEv(t, "engine_error", i)
              /\ engine_result[t] = "Cancelled" <=> HasEv(t, "cancelled", i)
        /\ HasEv(t, "engine_error", i) =>
              /\ errors[t] = 1 /\ Count(t, "error") = 1
              /\ ~HasEv(t, "done", i) /\ NothingAfter(t, i)
              /\ pc[t] \in {"close", "quit", "join_progress", "finish", "exited"}
        /\ HasEv(t, "cancelled", i) =>
              /\ errors[t] = 0
              /\ ~HasEv(t, "done", i) /\ NothingAfter(t, i)
              /\ pc[t] \in {"close", "quit", "join_progress", "finish", "exited"}
        /\ (HasEv(t, "joined", i) /\ ~Aborted(t, i)
                /\ ~(pc[t] = "close" /\ idx[t] = i)) =>
              /\ HasEv(t, "done", i)
              /\ (i < Len(FileList(t)) /\ ~HasEv(t, "stop", i)) =>
                    \/ pc[t] = "file" /\ idx[t] = i + 1
                    \/ HasEv(t, "begin", i + 1)

\* The first transfer of a batch returned Success and the batch went on;
\* the second returned an error, which was reported and ended the batch.
C11_Witness ==
    \E t \in ThreadIds :
        /\ Len(FileList(t)) = 3
        /\ HasEv(t, "done", 1) /\ HasEv(t, "engine_error", 2)
        /\ ~HasEv(t, "begin", 3)
        /\ errors[t] = 1 /\ pc[t] = "exited"

\* ------------------------------------------------------------------ C12

\* Everything but the count of the cancel requests.
AllButPresses == <<dispatcher, host, env, session, incs, decs, submitted>>

\* C12: the cancel flag is set exactly when a cancel request has arrived,
\* however many; a request that arrives after the first changes nothing
\* of the program's state; Cancel() is called at most once per transfer;
\* from a request that arrives while a file is in work the loop never
\* moves on to another file; and once the loop is past a cancelled
\* transfer whose output path was absent, the removal has been tried.
C12_CancelIsIdempotent ==
    /\ [](\A t \in ThreadIds :
            /\ cancel_pressed[t] <=> presses[t] # "none"
            /\ \A i \in 1..Len(FileList(t)) :
                 /\ Cardinality({k \in 1..Len(log[t]) :
                                    log[t][k] = <<"cancel", i>>}) <= 1
                 /\ (HasEv(t, "cancelled", i) /\ HasEv(t, "absent", i)
                        /\ pc[t] # "close") => HasEv(t, "remove", i))
    /\ [][\A t \in ThreadIds :
            /\ (presses'[t] = "again" /\ presses[t] = "once") =>
                   UNCHANGED AllButPresses
            /\ (cancel_pressed[t] /\ idx[t] > 0) => idx'[t] = idx[t]]_vars

\* Two cancel requests have arrived during one transfer; Cancel() was
\* called once and the controller waits for the transfer thread.
C12_Witness ==
    \E t \in ThreadIds :
        /\ presses[t] = "again" /\ pc[t] = "join" /\ tthread[t] = "running"
        /\ Count(t, "cancel") = 1

\* ------------------------------------------------------------------ C13

\* The host takes the step ev in this transition.
HostTakes(ev) == hstep'[1] = ev /\ (hstep' # hstep \/ work' # work)

\* The session threads that exist.
Created == {t \in ThreadIds : pc[t] # "none"}

\* C13: a ProcessFiles call whose password prompt is cancelled changes
\* nothing and reports nothing; one whose password converts to an empty
\* string reports one error; neither changes the pending queue, the
\* counter or the reap queue, takes the lock or creates a thread; and a
\* session thread comes into existence only in a call whose prompt was
\* accepted and whose password converted.
C13_NoSessionWithoutPassword ==
    [][/\ HostTakes("cancelled") =>
             /\ UNCHANGED <<dispatcher, pc, errors, host_errors>>
       /\ HostTakes("empty_password") =>
             /\ UNCHANGED <<dispatcher, pc, errors>>
             /\ host_errors' = host_errors + 1
       /\ (\E t \in ThreadIds : pc[t] = "none" /\ pc'[t] # "none") =>
             HostTakes("create")]_vars

\* A call has just ended on a password that could not be converted,
\* while a session thread exists whose request is still pending: the
\* error is reported, queue and counter are as they were.
C13_Witness ==
    /\ hstep = HostDid("empty_password", HostThread)
    /\ host_errors = 1
    /\ Len(requests) = 1 /\ thread_count = 1 /\ Cardinality(Created) = 1

\* ------------------------------------------------------------------ C14

\* What a failed thread creation must leave alone.
Bookkeeping == <<requests, thread_count, terminated_threads, pc>>

\* C14: when CreateThread fails, the host holds the lock, adds nothing to
\* the pending queue and does not touch the counter; it then leaves the
\* lock, and only then reports, once; after the report it is idle with no
\* request in hand, so the creation is not tried again.
C14_FailedCreationDiscardsRequest ==
    /\ [](/\ hpc = "failed" => cs = {HostThread} /\ hstep[1] = "create_failed"
          /\ hpc = "report" => HostThread \notin cs /\ hstep[1] = "leave")
    /\ [][/\ HostTakes("create_failed") =>
                /\ UNCHANGED <<Bookkeeping, host_errors>>
                /\ hpc' = "failed"
          /\ HostTakes("leave") =>
                /\ hstep[1] = "create_failed"
                /\ UNCHANGED <<Bookkeeping, host_errors>>
                /\ cs = {HostThread} /\ cs' = {}
          /\ HostTakes("report") =>
                /\ hstep[1] = "leave"
                /\ HostThread \notin cs
                /\ host_errors' = host_errors + 1
                /\ UNCHANGED <<Bookkeeping, cs>>
                /\ hpc' = "idle" /\ hreq' = NoRequest]_vars

\* A thread creation has failed and was reported while another session
\* thread exists: the counter still counts that one only.
C14_Witness ==
    /\ hstep = HostDid("report", HostThread) /\ hpc = "idle"
    /\ host_errors = 1
    /\ thread_count = 1 /\ Cardinality(Created) = 1

\* ---------------------------------------------------------------- C15

\* Session threads that were created for an empty file list.
EmptySessions == {t \in Created : submitted[t].file_list = <<>>}

\* C15: an empty file list is a no-op: ProcessFiles validates that the
\* list is not empty, so for an empty list no session thread is created
\* (StartThread is not entered with an empty list), the busy counter is
\* never incremented for one and no dialog of a session exists for one.
\* ProcessFiles has no such validation: the password dialog is shown, and
\* after it a session thread is created and counted, which finds nothing
\* to do in EncryptFiles / DecryptFiles.
C15_EmptyListIsNoOp ==
    /\ EmptySessions = {}
    /\ hpc = "created" => hreq.file_list # <<>>
    /\ \A t \in ThreadIds :
           Counted(t) /\ submitted[t].file_list = <<>> => incs[t] = 0

\* ---------------------------------------------------------------- C16

\* The positions of the event ev of file i in the log of session t.
Positions(t, ev, i) == {k \in 1..Len(log[t]) : log[t][k] = <<ev, i>>}

\* C16: when a transfer fails with an engine error and the output was
\* eligible for removal (nothing existed at its path), the attempt to
\* remove the partial output comes before the error notification.
\* EncryptStream / DecryptStream report the failure before they return,
\* and the loop removes the output only after that: the notification is in
\* the log of the session while the removal is still to come.
C16_RemovalBeforeNotification ==
    \A t \in ThreadIds : \A i \in 1..Len(FileList(t)) :
        \A k \in Positions(t, "error", i) :
            (HasEv(t, "engine_error", i) /\ HasEv(t, "absent", i)) =>
                \E j \in Positions(t, "remove", i) : j < k

\* ---------------------------------------------------------------- C17

\* C17: after a complete transfer the output is flushed and closed; a
\* failure of the flush is detected and reported (one notification for
\* the file), and the batch goes on with the next file unless cancel was
\* pressed.  The loop calls flush() and close() without looking at the
\* stream's state: a failed flush leaves no notification behind.
C17_FlushFailureReported ==
    \A t \in ThreadIds : \A i \in 1..Len(FileList(t)) :
        HasEv(t, "flush_failed", i) =>
            /\ HasEv(t, "done", i)
            /\ HasEv(t, "error", i) \/ HasEv(t, "error_out", i)
            /\ (i < Len(FileList(t)) /\ ~HasEv(t, "stop", i)) =>
                   (idx[t] > i \/ pc[t] = "file")

\* ---------------------------------------------------------------- C18

AESSuffix == <<".", "a", "e", "s">>

Lower(c) ==
    IF c = "A" THEN "a" ELSE IF c = "E" THEN "e" ELSE IF c = "S" THEN "s" ELSE c

\* The name ends, case-insensitively, with ".aes".
EndsWithAES(name) ==
    /\ Len(name) >= 4
    /\ [k \in 1..4 |-> Lower(name[Len(name) - 4 + k])] = AESSuffix

\* C18: encrypting a file named n writes to n followed by ".aes"; a
\* decrypt input is accepted if and only if its name ends,
\* case-insensitively, with ".aes"; its output name is the input name
\* without those four characters; so the decrypt output name of an
\* encrypt output name is the original name, for every name.
\* HasAESExtension asks std::filesystem::path for the extension, which is
\* not the end of the name: a file name that is only ".aes" has no
\* extension, and the extension of a name with a colon ends at the colon.
C18_OutputNaming ==
    /\ named.step = "encrypted" => named.file = tried \o AESSuffix
    /\ named.step \in {"accepted", "rejected"} =>
           (named.step = "accepted" <=> EndsWithAES(named.file))
    /\ named.step = "decrypted" =>
           /\ Len(named.file) = Len(named.input) - 4
           /\ named.file = SubSeq(named.input, 1, Len(named.file))
           /\ EndsWithAES(named.input)
    /\ named.encrypted =>
           /\ named.step # "rejected"
           /\ named.step = "decrypted" => named.file = tried

\* ---------------------------------------------------------------- C19

\* The positions of the pending requests that carry the identity of t.
Pending(t) == {i \in 1..Len(requests) : requests[i].thread_id = t}

\* The session thread t has taken a request out of the deque.
Claimed(t) == request[t] # NoRequest

\* The session thread t has not yet come to its std::find_if.
BeforeClaim(t) == pc[t] \in {"entry", "drain", "wait", "reenter"}

\* C19: each enqueued request is claimed by exactly one session thread,
\* the one whose identity StartThread recorded in it, and it is erased
\* from the deque in the critical section in which it is found: at any
\* time a counted thread that has not claimed has exactly one pending
\* request, its own; a thread that has claimed holds the request built
\* for it and nothing of it is pending; a request is taken only by its
\* own thread, once, while that thread owns the critical section, and
\* that step erases it and leaves the section.
C19_RequestClaimedOnceByOwner ==
    /\ [](\A t \in ThreadIds :
            /\ Cardinality(Pending(t)) <= 1
            /\ \A i \in Pending(t) : requests[i] = submitted[t]
            /\ Claimed(t) =>
                   /\ request[t] = submitted[t]
                   /\ request[t].thread_id = t
                   /\ Pending(t) = {}
                   /\ ~BeforeClaim(t)
            /\ (Counted(t) /\ BeforeClaim(t)) =>
                   Cardinality(Pending(t)) = 1 /\ ~Claimed(t)
            /\ (pc[t] # "none" /\ ~BeforeClaim(t)) => Claimed(t)
            /\ ~Counted(t) => Pending(t) = {})
    /\ [][\A t \in ThreadIds :
            request'[t] # request[t] =>
                /\ ~Claimed(t)
                /\ cs = {t} /\ cs' = {}
                /\ Pending(t) # {}
                /\ \A i \in Pending(t) :
                       request'[t] = requests[i] /\ requests' = Erase(requests, i)
                /\ \A u \in ThreadIds \ {t} : request'[u] = request[u]]_vars

\* The second session has claimed its request, a batch with a file, while
\* the request of the first session is still pending.
C19_Witness ==
    /\ Claimed(2) /\ request[2].file_list # <<>> /\ request[2].thread_id = 2
    /\ Pending(1) = {1} /\ ~Claimed(1) /\ pc[1] = "entry"

\* ---------------------------------------------------------------- C20

\* C20: under every interleaving of ProcessFiles calls and session
\* threads, a session thread that owns the critical section before its
\* std::find_if has a pending request with its own identity, also after
\* it left and re-entered the section while draining terminated_threads:
\* between CreateThread and the enqueue the host owns the section and the
\* new thread is still at its first EnterCriticalSection; the search of a
\* thread always ends with its request, and "Thread rendezvous failed" is
\* never reported.
C20_RendezvousNeverFails ==
    /\ [](/\ \A t \in ThreadIds :
               /\ ~HasEv(t, "rendezvous", 0)
               /\ (t \in cs /\ pc[t] = "drain") => FindRequest(t) # 0
               /\ pc[t] \in {"wait", "reenter"} =>
                      (FindRequest(t) # 0 /\ t \notin cs)
          /\ hpc = "created" =>
                 (cs = {HostThread} /\ pc[hthread] = "entry"
                    /\ FindRequest(hthread) = 0))
    /\ [][\A t \in ThreadIds :
            (pc[t] = "drain" /\ pc'[t] \notin {"drain", "wait"}) =>
                (pc'[t] = "claimed" /\ request'[t].thread_id = t
                   /\ errors'[t] = errors[t] /\ thread_count' = thread_count)]_vars

\* The second session left the critical section to release the handle of
\* the first session, which has ended, entered the section again and then
\* found its request.
C20_Witness ==
    /\ pc[2] = "claimed" /\ handle[2] = 1 /\ released = <<1>>
    /\ request[2] = submitted[2] /\ errors[2] = 0
    /\ pc[1] = "exited"

\* ---------------------------------------------------------------- C21

\* How often the handle of thread t is in terminated_threads, how many
\* draining threads hold it between pop_front and CloseHandle, and how
\* often it was given to CloseHandle.
InReapQueue(t) ==
    Cardinality({k \in 1..Len(terminated_threads) : terminated_threads[k] = t})
HeldByDrainer(t) ==
    Cardinality({u \in ThreadIds : pc[u] = "wait" /\ handle[u] = t})
TimesReleased(t) ==
    Cardinality({k \in 1..Len(released) : released[k] = t})

\* C21: the handle of a session thread enters terminated_threads once,
\* when its session has completed, and is released once, by the drain of
\* a later session or by the destructor: at any time the handle of a
\* completed session is in exactly one place (the deque, the local of one
\* drainer, or released), the handle of any other thread is in none, and
\* when the destructor has finished every handle of a created thread has
\* been released and the deque is empty.
C21_HandleReapedExactlyOnce ==
    /\ \A t \in ThreadIds :
           /\ InReapQueue(t) + HeldByDrainer(t) + TimesReleased(t)
                  = IF pc[t] = "exited" THEN 1 ELSE 0
    /\ \A k \in 1..Len(released) : released[k] \in ThreadIds
    /\ hpc \in {"reap", "destroyed"} =>
           \A t \in ThreadIds : pc[t] \in {"none", "exited"}
    /\ hpc = "destroyed" =>
           /\ terminated_threads = <<>>
           /\ \A t \in Created : TimesReleased(t) = 1

\* Two sessions have ended: the handle of the first was released by the
\* drain of the second, the handle of the second by the destructor, which
\* has finished.
C21_Witness ==
    /\ hpc = "destroyed"
    /\ released = <<1, 2>>
    /\ waited = <<AddressOfHandle(2), AddressOfHandle(HostThread)>>
    /\ pc[1] = "exited" /\ pc[2] = "exited"

\* ---------------------------------------------------------------- C22

\* C22: a handle is released only after the releasing thread has waited
\* on that handle, and so knows that the thread it identifies has ended:
\* the wait that precedes the k-th CloseHandle was given the handle that
\* CloseHandle is given.  Both drain loops pass &handle, the address of
\* their local variable, to WaitForSingleObject: no wait is ever made on
\* a thread handle, and the handle is closed whatever its thread does.
C22_ReleasedAfterWaitOnHandle ==
    /\ Len(waited) = Len(released)
    /\ \A k \in 1..Len(released) : waited[k] = ThreadObject(released[k])

\* ---------------------------------------------------------------- C23

\* C23: a session thread never waits on or releases its own handle: its
\* handle is in terminated_threads only after the thread has left its
\* last critical section, so never during its own drain; the handle a
\* draining thread holds is that of another thread, which has completed;
\* and every handle released was released by another thread (a session
\* or the host in the destructor).
C23_NeverReapsOwnHandle ==
    /\ \A t \in ThreadIds :
           /\ pc[t] # "exited" => InReapQueue(t) = 0
           /\ handle[t] # t
           /\ pc[t] \in {"wait", "reenter"} =>
                  (handle[t] \in ThreadIds /\ pc[handle[t]] = "exited")
    /\ Len(waited) = Len(released)
    /\ \A k \in 1..Len(released) :
           /\ waited[k].of # released[k]
           /\ waited[k].of \in ThreadIds => pc[released[k]] = "exited"

\* The second session is in its drain loop and has released the handle of
\* the first session, which has ended.
C23_Witness ==
    /\ pc[2] = "reenter" /\ handle[2] = 1
    /\ released = <<1>> /\ waited = <<AddressOfHandle(2)>>
    /\ terminated_threads = <<>>

\* ---------------------------------------------------------------- C24

\* Thread a owns the critical section before or after the step.
Locked(a) == a \in cs \/ a \in cs'

\* The step is one of the host thread; of the session thread t.
HostActs == hstep' # hstep \/ work' # work \/ hpc' # hpc
SessionActs(t) == pc[t] # "none" /\ pc'[t] # pc[t]

\* CreateThread is called in the step.
CreatesThread == \E t \in ThreadIds : pc[t] = "none" /\ pc'[t] # "none"

\* C24, as the code has it: the critical section is owned by one thread
\* at a time, by the host only inside StartThread between
\* EnterCriticalSection and LeaveCriticalSection, by a session only at
\* the head of its drain loop; a step of a thread that owns it (before or
\* after) does no file I/O, reports no error, waits on nothing, releases
\* no handle and joins no thread.  CreateThread is the exception: it is
\* called by StartThread while it owns the critical section.
C24_LockOnlyForBookkeeping ==
    /\ [](/\ Cardinality(cs) <= 1
          /\ HostThread \in cs => hpc \in {"created", "failed"}
          /\ hpc \in {"created", "failed"} => cs = {HostThread}
          /\ \A t \in ThreadIds : t \in cs => pc[t] = "drain")
    /\ [][/\ (HostActs /\ Locked(HostThread)) =>
                 UNCHANGED <<host_errors, fs, released, waited>>
          /\ \A t \in ThreadIds : (SessionActs(t) /\ Locked(t)) =>
                 UNCHANGED <<fs, released, waited, errors, log, pthread,
                             tthread>>
          /\ released' # released => cs' = cs]_vars

\* C24, as stated: in addition, no thread is created while the critical
\* section is owned.
C24_NothingUnderLock ==
    /\ C24_LockOnlyForBookkeeping
    /\ [][CreatesThread => ~Locked(HostThread)]_vars

\* The host has called CreateThread for a second session and owns the
\* critical section, while the first session waits for its transfer
\* thread.
C24_Witness ==
    /\ hpc = "created" /\ hthread = 2 /\ cs = {HostThread}
    /\ pc[2] = "entry" /\ pc[1] = "join" /\ tthread[1] = "running"

\* ---------------------------------------------------------------- C25

\* C25: the controller calls the engine's Cancel() only after it has
\* seen the cancellation flag and while it does not hold the mutex of the
\* progress state, and goes from there to the join; EncryptStream /
\* DecryptStream has returned only if the transfer thread has ended, and
\* the streams are closed only after that.
C25_CancelOutsideLockThenJoin ==
    /\ [][cancel_called' # cancel_called =>
            /\ was_cancel_pressed
            /\ mutex # "controller" /\ mutex' # "controller"
            /\ controller' = "relock"]_vars
    /\ [][(controller = "relock" /\ controller' # "relock") =>
            controller' = "join"]_vars
    /\ [](controller \in {"returned", "closed"} => transfer = "exited")
    /\ [](~streams_open => transfer = "exited")

\* A cancelled transfer: Cancel() was called, the engine returned
\* Cancelled, the thread was joined and the streams are closed.
C25_Witness ==
    /\ cancel_called
    /\ encrypt_result = "Cancelled"
    /\ controller = "closed"
    /\ ~streams_open

\* ---------------------------------------------------------------- C26

\* The engine calls the progress callback in this step.
CallbackRuns == position' # position

\* C26: for a file of known size, the callback called with
\* position == input_size stores the percentage (100) and signals the
\* controller, however little time has passed.
C26_FinalUpdateDelivered ==
    [][(CallbackRuns /\ input_size > 0 /\ position' = input_size) =>
          /\ current_meter_position' = Percentage(position', input_size)
          /\ signals' = signals + 1]_vars

\* ---------------------------------------------------------------- C27

\* Less than the minimum interval has passed since the last signal (or
\* since the transfer started).
TooSoon == now - last_update_time < Progress_Update_Minimum

\* C27: a callback that is not the final one (position # input_size), for
\* a file of known size, stores a percentage, takes the time and signals
\* the controller exactly if at least Progress_Update_Minimum has passed
\* since the last signal or the start; one that arrives sooner leaves the
\* shared percentage and the last-signal time alone and wakes nobody.
C27_ThrottledByMinimumInterval ==
    [][(CallbackRuns /\ input_size > 0 /\ position' # input_size) =>
          IF TooSoon
          THEN UNCHANGED <<current_meter_position, last_update_time, signals>>
          ELSE /\ current_meter_position' = Percentage(position', input_size)
               /\ last_update_time' = now
               /\ signals' = signals + 1]_vars

\* A callback has been delivered and a later one has been dropped for
\* arriving within the interval.
C27_Witness ==
    /\ input_size = MaxSize
    /\ signals = 1
    /\ last_update_time > 0
    /\ TooSoon
    /\ position < input_size
    /\ Percentage(position, input_size) > current_meter_position

\* ---------------------------------------------------------------- C28

\* C28: the positions sent to the progress bar for one file start with
\* the reset to 0 and are strictly increasing after it; the controller
\* sends the shared percentage only when it is greater than the last one
\* it displayed, which it keeps in last_meter_position.
C28_SentPositionsIncrease ==
    /\ [](/\ bar[1] = 0
          /\ \A i \in 1..(Len(bar) - 1) : bar[i] < bar[i + 1]
          /\ last_meter_position = bar[Len(bar)])
    /\ [][bar' # bar =>
            /\ current_meter_position > last_meter_position
            /\ bar' = Append(bar, current_meter_position)]_vars
    /\ [][(controller = "service" /\ controller' # "service"
            /\ current_meter_position <= last_meter_position) =>
            bar' = bar]_vars

\* Two positions have been sent after the reset, and the controller has
\* been woken once more (by the completion) with no new position to send.
C28_Witness ==
    /\ Len(bar) = 3
    /\ bar[2] > 0
    /\ controller = "service"
    /\ encryption_complete
    /\ current_meter_position = last_meter_position
    /\ ~was_cancel_pressed

\* ---------------------------------------------------------------- C29

\* C29: when the input size is 0 (empty or unknown), no callback changes
\* the shared percentage, the last-signal time or signals the controller,
\* and nothing but the reset to 0 is sent to the progress bar; the
\* controller leaves its wait only on completion or cancellation, and the
\* function returns only with the engine's result and the transfer
\* thread ended, as for any other file.
C29_UnknownSizeNoProgress ==
    /\ [](input_size = 0 =>
            /\ current_meter_position = 0
            /\ last_update_time = 0
            /\ signals = 0
            /\ bar = <<0>>)
    /\ [][(input_size = 0 /\ controller = "wait" /\ controller' # "wait") =>
            encryption_complete \/ was_cancel_pressed]_vars
    /\ [](input_size = 0 /\ controller \in {"returned", "closed"} =>
            /\ encryption_complete
            /\ encrypt_result \in {"Success", "Error", "Cancelled"})

\* A file of unknown size has been transferred with success, the engine
\* having reported positions all along, after the controller had waited
\* for the completion.
C29_Witness ==
    /\ input_size = 0
    /\ position = MaxPosition
    /\ now >= Progress_Update_Minimum
    /\ encrypt_result = "Success"
    /\ ~was_cancel_pressed
    /\ controller = "closed"

\* ---------------------------------------------------------------- C30

\* C30: every position sent to the progress bar, and every percentage
\* stored for it, lies in 0..100, and the product 100 * position does not
\* overflow std::size_t.
C30_SentPositionsInRange ==
    /\ \A i \in 1..Len(bar) : bar[i] \in 0..100
    /\ current_meter_position \in 0..100
    /\ 100 * position < SizeModulus

\* ---------------------------------------------------------------- C40

\* The thread identities carried by the pending requests.
PendingIds == {requests[i].thread_id : i \in 1..Len(requests)}

\* The session threads that exist and have not taken their request.
Unclaimed == {t \in ThreadIds : BeforeClaim(t)}

\* The thread CreateThread has just returned to StartThread, which is
\* still in its critical section and about to enqueue the request.
BeingEnqueued == IF hpc = "created" THEN {hthread} ELSE {}

\* C40: the pending queue holds exactly the requests of the session
\* threads that StartThread has created and enqueued and that have not
\* yet claimed: every pending request is the one built for its thread,
\* that thread is alive and still before its claim, no two pending
\* requests carry the same identity, there are never more of them than
\* the busy counter says, and none when the counter is zero.  (Between
\* CreateThread and emplace_back, inside StartThread's critical section,
\* the new thread exists and its request is the one being enqueued.)
C40_PendingAreUnclaimedThreads ==
    /\ PendingIds \cup BeingEnqueued = Unclaimed
    /\ PendingIds \cap BeingEnqueued = {}
    /\ BeingEnqueued # {} => cs = {HostThread}
    /\ \A i \in 1..Len(requests) :
         /\ requests[i] = submitted[requests[i].thread_id]
         /\ \A j \in 1..Len(requests) :
              requests[j].thread_id = requests[i].thread_id => j = i
    /\ Len(requests) <= thread_count
    /\ thread_count = 0 => requests = <<>>

\* Two requests are pending at once: the first
\* session has not yet claimed when the second is enqueued.
C40_Witness ==
    /\ Len(requests) = 2
    /\ thread_count = 2
    /\ hpc = "idle"
    /\ Unclaimed = {1, 2}

\* ---------------------------------------------------------------- C37

\* What the session thread t is blocked on, if anything, can still
\* happen: the ready event can still be set, the transfer thread can
\* still complete (the engine call returns), the progress thread can
\* still end.
CanGoOn(t) ==
    /\ pc[t] = "waitready" => pthread[t] \in {"starting", "loop"}
    /\ pc[t] \in {"wait_cv", "join"} => tthread[t] \in {"running", "exited"}
    /\ pc[t] = "join_progress" => pthread[t] \in {"quitting", "exited"}

\* C37: every session thread that was created finishes in the end, on
\* every path, the failure of the progress thread before the ready signal
\* included; so, short of std::terminate, no session thread is ever
\* blocked on something that can no longer happen.
C37_EverySessionCanFinish ==
    ~crashed => \A t \in ThreadIds : CanGoOn(t)

\* ---------------------------------------------------------------- C31

\* Where the session is inside the file loop, in which it sends messages
\* to the progress dialog (PBM_SETPOS, the file name).
InFileLoop == {"file", "status", "open_out", "spawn", "ctl", "wait_cv",
               "join", "close"}

\* C31: a batch that passes validation runs one progress thread, started
\* once and never again; while the session is in the file loop that
\* thread has signalled the ready event and serves its message loop; only
\* the session, after the loop, tells it to quit; and when the session
\* has left EncryptFiles / DecryptFiles by its end (so, before it
\* decrements thread_count) the progress thread has been joined.
C31_OneProgressThreadPerBatch ==
    /\ [](\A t \in ThreadIds :
            /\ pc[t] \in InFileLoop => pthread[t] = "loop"
            /\ pc[t] \in InFileLoop \cup {"waitready", "quit", "join_progress"}
                 => pthread[t] # "none"
            /\ (pc[t] \in {"finish", "exited"} /\ ~HasAny(t, "throw")) =>
                  pthread[t] \in {"none", "exited"}
            /\ (decs[t] > 0 /\ HasAny(t, "transfer")) => pthread[t] = "exited")
    /\ [][\A t \in ThreadIds :
            /\ (pthread'[t] = "starting" /\ pthread[t] # "starting") =>
                  (pthread[t] = "none" /\ pc[t] = "claimed")
            /\ (pthread'[t] = "quitting" /\ pthread[t] # "quitting") =>
                  (pthread[t] = "loop" /\ pc[t] = "quit"
                     /\ pc'[t] = "join_progress")]_vars

\* A batch has been cancelled during a transfer and its session has
\* finished: the progress thread was told to quit and joined before the
\* decrement.
C31_Witness ==
    \E t \in ThreadIds :
        /\ decs[t] = 1
        /\ HasAny(t, "cancelled")
        /\ pthread[t] = "exited"

\* ---------------------------------------------------------------- C33

\* The session thread t takes no part in the step.
SessionStill(t) == pc'[t] = pc[t]

\* C33: the cancellation flag of a batch, once set, stays set; the
\* session answers it by calling Cancel() on the engine, which leaves the
\* transfer thread running; a transfer thread ends only by a step of its
\* own, after the engine call has returned and with the completion flag
\* set, a progress thread only by a step of its own, and the session goes
\* past its joins only when the thread has ended that way.
C33_CancelMonotonicCooperative ==
    [][\A t \in ThreadIds :
         /\ cancel_pressed[t] => cancel_pressed'[t]
         /\ (engine_cancel'[t] /\ ~engine_cancel[t]) =>
               (cancel_pressed[t] /\ tthread'[t] = tthread[t]
                  /\ tthread[t] \in {"running", "exited"})
         /\ (tthread[t] = "running" /\ tthread'[t] # "running") =>
               (tthread'[t] = "exited" /\ complete'[t] /\ SessionStill(t))
         /\ (tthread[t] = "exited" /\ tthread'[t] # "exited") =>
               (pc[t] = "join" /\ ~SessionStill(t))
         /\ (pthread[t] # pthread'[t] /\ pthread'[t] \in {"exited", "failed"}) =>
               SessionStill(t)
         /\ (pc[t] = "join_progress" /\ ~SessionStill(t)) =>
               pthread[t] = "exited"]_vars

\* The cancel was pressed during the first file of a batch of two, the
\* engine was told and returned Cancelled, both threads were waited for,
\* and the flag is still set when the session is at its end.
C33_Witness ==
    \E t \in ThreadIds :
        /\ Len(request[t].file_list) = 2
        /\ idx[t] = 1
        /\ cancel_pressed[t]
        /\ engine_cancel[t]
        /\ engine_result[t] = "Cancelled"
        /\ pthread[t] = "exited"
        /\ pc[t] = "finish"

\* ---------------------------------------------------------------- C32

\* What a cancel handler of the dialog leaves alone, whichever it is.
NotOfTheDialog == <<program, shared, control, engine, mutex, woken,
                    input_size, now>>

\* The progress thread leaves the handler h in this step.
HandlerReturns(h) == surface = h /\ surface' # h

\* What the notify callback does for the session: it runs with the
\* mutex taken, wakes a waiting controller and returns to the loop.
NotifiesController ==
    /\ mutex = "free"
    /\ woken' = NotifyAll
    /\ surface' = "loop"
    /\ UNCHANGED <<program, shared, control, engine, surroundings, mutex>>

\* C32: the notice that the Windows session ends (WM_ENDSESSION with
\* wParam # 0) does to the session what a click on Cancel does: the step
\* that delivers it sets the cancellation flag and changes nothing else of
\* the program, the handler then runs the notify callback exactly as the
\* click handler does, and a controller that has left its loop with the
\* flag set has either called Cancel() on the engine or found the transfer
\* complete.  (Only the click hides the dialog.)
C32_EndSessionActsAsCancel ==
    /\ [][(ended' /\ ~ended) =>
            /\ was_cancel_pressed'
            /\ surface = "loop" /\ surface' = "endsession"
            /\ UNCHANGED NotOfTheDialog
            /\ UNCHANGED hidden]_vars
    /\ [][(surface = "loop" /\ surface' = "clicked") =>
            /\ was_cancel_pressed'
            /\ UNCHANGED NotOfTheDialog
            /\ UNCHANGED <<hidden, ended>>]_vars
    /\ [][HandlerReturns("endsession") =>
            (NotifiesController /\ UNCHANGED <<hidden, ended>>)]_vars
    /\ [][HandlerReturns("clicked") =>
            (NotifiesController /\ hidden' /\ UNCHANGED ended)]_vars
    /\ []((was_cancel_pressed /\ controller \in {"join", "returned", "closed"})
            => (cancel_called \/ encryption_complete))

\* The end of the Windows session, with no click on Cancel, has made the
\* controller call Cancel(); the engine returned Cancelled and the
\* transfer was closed.
C32_Witness ==
    /\ ended
    /\ ~hidden
    /\ cancel_called
    /\ encrypt_result = "Cancelled"
    /\ controller = "closed"
    /\ position > 0

\* ---------------------------------------------------------------- C36

\* The steps of the three threads of a session (not those of the clock,
\* the user or Windows).
ThreadsStep ==
    \/ ControllerNext
    \/ Progress_Updater
    \/ Engine_Return
    \/ Transfer_Complete
    \/ Dialog_Notify

\* The controller is in SendDlgItemMessage, which returns when the
\* progress thread has handled the message.
Sending == controller = "service" /\ current_meter_position > last_meter_position

\* Where the controller owns the mutex.
HoldsLock == {"loop", "park", "woken"}

\* C36: the three threads of a session never wait for each other in a
\* circle.  The controller owns the mutex only between lock and unlock,
\* where its next step needs no other thread; it sends to the dialog,
\* waits on the condition variable and joins only without the mutex; a
\* cancel handler on the progress thread needs only the mutex to return
\* to its loop, and the transfer thread needs only the mutex for its
\* callback and its completion; so until the transfer is closed some
\* thread can always take a step.
C36_NoDeadlockInSession ==
    /\ [](/\ mutex = "controller" <=> controller \in HoldsLock
          /\ controller \in HoldsLock => ENABLED ControllerNext
          /\ (surface # "loop" /\ mutex = "free") => ENABLED Dialog_Notify
          /\ (transfer = "done" /\ mutex = "free") => ENABLED Transfer_Complete
          /\ (Sending /\ surface = "loop") => ENABLED Controller_Service
          /\ controller # "closed" => ENABLED ThreadsStep)
    /\ [][bar' # bar => (mutex # "controller" /\ surface = "loop")]_vars

\* The controller is in SendDlgItemMessage while the progress thread is
\* in the cancel handler, about to take the mutex, and the engine is at
\* work: the handler can go on because the controller does not own the
\* mutex.
C36_Witness ==
    /\ Sending
    /\ surface = "clicked"
    /\ transfer = "engine"
    /\ mutex = "free"

\* ---------------------------------------------------------------- C35

\* The relay with its scheduling: a thread that can take a step does so
\* in the end.  The controller, the completion of the transfer thread
\* and the return of a cancel handler are steps of running threads.
\* Nothing is assumed of the engine call, the clock or the user.
StreamLive ==
    /\ StreamSpec
    /\ WF_vars(ControllerNext)
    /\ WF_vars(Transfer_Complete)
    /\ WF_vars(Dialog_Notify)

\* The controller has left its loop.
PastLoop == controller \in {"join", "returned", "closed"}

\* C35: no wake-up of the controller is lost.  Once the transfer thread
\* has set encryption_complete the controller leaves its loop; once the
\* dialog has set the cancel flag the controller calls Cancel(), or
\* leaves the loop because the transfer completed first.
C35_NoLostWakeup ==
    /\ encryption_complete ~> PastLoop
    /\ was_cancel_pressed ~> (cancel_called \/ PastLoop)

\* The controller has been woken from cv.wait by the cancel callback
\* alone: no completion, no new meter position.
C35_Witness ==
    /\ controller = "woken"
    /\ was_cancel_pressed
    /\ ~encryption_complete
    /\ current_meter_position = last_meter_position

\* ------------------------------------------------- two sessions, one file

\* The sessions of two ProcessFiles calls that are alive together.
Racers == {1, 2}

\* The request StartThread queued for each: encrypt the one file a.
RaceRequest(t) ==
    [file_list |-> <<NameA>>, encrypt |-> TRUE, thread_id |-> t,
     thread_handle |-> t]

IfRacer(t, yes, no) == IF t \in Racers THEN yes ELSE no

\* The program after two ProcessFiles calls for the same existing file:
\* both requests are queued, both threads are created and counted, no
\* session thread has run yet, the host is idle again.
RaceInit ==
    /\ thread_count = Cardinality(Racers)
    /\ requests = [t \in Racers |-> RaceRequest(t)]
    /\ terminated_threads = <<>>
    /\ cs = {}
    /\ hpc = "idle"
    /\ hreq = NoRequest
    /\ hthread = HostThread
    /\ host_errors = 0
    /\ work = Cardinality(Racers) * (2 + Len(RaceRequest(1).file_list))
    /\ hstep = HostDid("enqueue", Cardinality(Racers))
    /\ fs0 \in {f \in [FsPaths -> {Node(k, 0) : k \in Kinds}] :
                    /\ \A p \in FsPaths : f[p].kind \in InitialKinds(p)
                    /\ f[NameA].kind = "regular"}
    /\ fs = fs0
    /\ crashed = FALSE
    /\ released = <<>>
    /\ waited = <<>>
    /\ pc = [t \in ThreadIds |-> IfRacer(t, "entry", "none")]
    /\ request = [t \in ThreadIds |-> NoRequest]
    /\ handle = [t \in ThreadIds |-> HostThread]
    /\ idx = [t \in ThreadIds |-> 0]
    /\ remove_on_fail = [t \in ThreadIds |-> FALSE]
    /\ cancel_pressed = [t \in ThreadIds |-> FALSE]
    /\ pthread = [t \in ThreadIds |-> "none"]
    /\ tthread = [t \in ThreadIds |-> "none"]
    /\ engine_cancel = [t \in ThreadIds |-> FALSE]
    /\ engine_result = [t \in ThreadIds |-> "Success"]
    /\ complete = [t \in ThreadIds |-> FALSE]
    /\ errors = [t \in ThreadIds |-> 0]
    /\ log = [t \in ThreadIds |-> <<>>]
    /\ incs = [t \in ThreadIds |-> IfRacer(t, 1, 0)]
    /\ decs = [t \in ThreadIds |-> 0]
    /\ submitted = [t \in ThreadIds |-> IfRacer(t, RaceRequest(t), NoRequest)]
    /\ presses = [t \in ThreadIds |-> "none"]
    /\ tried = <<>>
    /\ named = NotNamed
    /\ MeterIdle

\* The session threads run; the host submits nothing more.
RaceNext == \E t \in ThreadIds : SessionNext(t)

RaceSpec == RaceInit /\ [][RaceNext]_vars

\* ---------------------------------------------------------------- C38

\* The session has opened the output of its file i for writing.
OpenedOutput(t, i) ==
    \E k \in 1..Len(log[t]) : log[t][k] = <<"open_out", i>>

\* The session has finished its file i with success.
FinishedOutput(t, i) ==
    \E k \in 1..Len(log[t]) : log[t][k] = <<"done", i>>

\* The output path of file i of the batch submitted for the session.
SubmittedOutput(t, i) ==
    OutName(submitted[t].file_list[i], submitted[t].encrypt)

\* C38: of two sessions whose batches name the same input at most one
\* opens the shared output path for writing, and the output a session
\* has finished with success is there as that session wrote it: no other
\* session has truncated or removed it.
C38_OneSessionOwnsTheOutput ==
    \A t \in ThreadIds : \A i \in 1..Len(submitted[t].file_list) :
        /\ \A u \in ThreadIds \ {t} : \A j \in 1..Len(submitted[u].file_list) :
               (/\ SubmittedOutput(t, i) = SubmittedOutput(u, j)
                /\ OpenedOutput(t, i))
               => ~OpenedOutput(u, j)
        /\ (FinishedOutput(t, i) /\ fs0[SubmittedOutput(t, i)].kind = "absent")
               => fs[SubmittedOutput(t, i)] = Node("regular", t)

\* ---------------------------------------------------------------- C39

\* What the progress relay of a session consists of: the cancel flag of
\* its dialog and the requests the dialog received, the completion flag,
\* the engine's cancel request and result, its transfer thread and its
\* progress thread.
Relay(t) ==
    <<cancel_pressed[t], presses[t], complete[t], engine_cancel[t],
      engine_result[t], tthread[t], pthread[t]>>

BeforeCall == work = 0

\* wWinMain is in its wait loop: ProcessFiles has returned and no
\* WM_QUIT has been posted.
InWaitLoop == ~crashed /\ hpc = "idle" /\ work > 0

\* The one ProcessFiles call of the launcher, with the files of the
\* command line.
Launcher_ProcessFiles ==
    /\ BeforeCall
    /\ \/ ProcessFiles_Cancelled
       \/ ProcessFiles_EmptyPassword
       \/ StartThread_Create
       \/ StartThread_CreateFailed

\* No file on the command line: the usage message, then
\* SendMessage(hWnd, WM_DESTROY), whose handler calls PostQuitMessage(0).
Launcher_Usage ==
    /\ ~crashed /\ hpc = "idle" /\ BeforeCall
    /\ hpc' = "quit"
    /\ hstep' = HostDid("usage", HostThread)
    /\ UNCHANGED <<naming, meter, waited, counts, dispatcher, hreq, hthread,
                   host_errors, work, env, session>>

\* The wait loop, no message queued, AESLibraryBusy(): Sleep(250).
Launcher_Sleep ==
    /\ InWaitLoop
    /\ cs = {}
    /\ IsBusy
    /\ hstep' = HostDid("sleep", HostThread)
    /\ UNCHANGED <<naming, meter, waited, counts, dispatcher, hpc, hreq,
                   hthread, host_errors, work, env, session>>

\* The wait loop, no message queued, the library is not busy:
\* SendMessage(hWnd, WM_DESTROY); WindowProc calls PostQuitMessage(0).
Launcher_NotBusy ==
    /\ InWaitLoop
    /\ cs = {}
    /\ ~IsBusy
    /\ hpc' = "quit"
    /\ hstep' = HostDid("not_busy", HostThread)
    /\ UNCHANGED <<naming, meter, waited, counts, dispatcher, hreq, hthread,
                   host_errors, work, env, session>>

\* The wait loop, a WM_CLOSE for the hidden window is queued (another
\* process asks the launcher to close): GetMessage, DispatchMessage;
\* WindowProc hands it to DefWindowProc, which destroys the window;
\* WM_DESTROY then calls PostQuitMessage(0).
Launcher_Close ==
    /\ InWaitLoop
    /\ hpc' = "quit"
    /\ hstep' = HostDid("close", HostThread)
    /\ UNCHANGED <<naming, meter, waited, counts, dispatcher, hreq, hthread,
                   host_errors, work, env, session>>

\* The wait loop: GetMessage returns 0 for WM_QUIT, break; wWinMain
\* returns and the process ends.
Launcher_Break ==
    /\ ~crashed /\ hpc = "quit"
    /\ hpc' = "ended"
    /\ UNCHANGED <<naming, meter, waited, counts, dispatcher, hreq, hthread,
                   host_errors, work, hstep, env, session>>

\* The steps of the one session of a launcher process.  It is the first
\* session thread of the process, so terminated_threads is empty when it
\* enters and the drain loop of ThreadEntry has nothing to do.
LauncherSession(t) ==
    \/ ThreadEntry_Enter(t)
    \/ ThreadEntry_Claim(t)
    \/ ThreadEntry_Catch(t)
    \/ ThreadEntry_Finish(t)
    \/ Files_Begin(t)
    \/ Files_BeginThrows(t)
    \/ Files_Ready(t)
    \/ Files_OpenInput(t)
    \/ Files_Status(t)
    \/ Files_OpenOutput(t)
    \/ Files_Close(t)
    \/ Files_Quit(t)
    \/ Files_JoinProgress(t)
    \/ Stream_Spawn(t)
    \/ Stream_SpawnThrows(t)
    \/ Stream_Check(t)
    \/ Stream_Wake(t)
    \/ Stream_Join(t)
    \/ Transfer_Finish(t)
    \/ Progress_Ready(t)
    \/ Progress_Fails(t)
    \/ Progress_Cancel(t)
    \/ Progress_Exit(t)

LauncherNext ==
    \/ Launcher_ProcessFiles
    \/ StartThread_Commit
    \/ StartThread_FailLeave
    \/ StartThread_FailReport
    \/ Launcher_Usage
    \/ Launcher_Sleep
    \/ Launcher_NotBusy
    \/ Launcher_Close
    \/ Launcher_Break
    \/ \E t \in ThreadIds : LauncherSession(t)

LauncherSpec == Init /\ [][LauncherNext]_vars

\* ---------------------------------------------------------------- C34

\* The session of the thread is at work: created and not yet past the
\* thread_count-- of ThreadEntry.
AtWork(t) == pc[t] # "none" /\ decs[t] = 0

\* C34: once the ProcessFiles call that created a session has returned,
\* IsBusy() is true until the session has decremented thread_count, which
\* it does after its transfer and progress threads are joined; and the
\* launcher leaves its wait loop only when no session is at work.
C34_LauncherWaitsForSessions ==
    /\ (hpc \in {"idle", "quit", "ended"} /\ \E t \in ThreadIds : AtWork(t))
           => IsBusy
    /\ \A t \in ThreadIds :
           decs[t] > 0 =>
               (tthread[t] \in {"none", "exited"}
                   /\ pthread[t] \in {"none", "exited"})
    /\ hpc = "ended" => \A t \in ThreadIds : ~AtWork(t)

=============================================================================
